---------------------------- MODULE Spec2Model ----------------------------
(***************************************************************************)
(* A model of jeremytorres/rawparser: the endian-aware primitive reads,    *)
(* the generic IFD walk, the NEF and CR2 header and tag interpretation,    *)
(* the EXIF date parser and the top-level ProcessFile of both parsers.     *)
(*                                                                         *)
(* Representation.                                                         *)
(*   byte      an integer 0..255                                           *)
(*   file      a sequence of bytes; Go offset o is element o+1             *)
(*   string    a sequence of bytes (ASCII codes), as Go's string(bytes)    *)
(*   uint16    an integer 0..65535                                         *)
(*   uint32    a record [hi, lo] of two uint16 halves (hi*2^16 + lo): the  *)
(*             model checker's integers are 32-bit signed, so a uint32 is  *)
(*             kept exactly as its two halves                              *)
(*   error     a string; NoErr is Go's nil                                 *)
(***************************************************************************)
EXTENDS Integers, Sequences, FiniteSets, TLC

VARIABLES
    \* ---- one ProcessFile call on one parser instance ----
    parserKind,     \* "NEF" (NefParser) or "CR2" (Cr2Parser)
    hostIsLE,       \* the parser's HostIsLittleEndian flag
    info,           \* the RawFileInfo passed to ProcessFile
    fileExists,     \* whether os.Open(info.File) can succeed
    file,           \* the bytes of the file at info.File
    pc,             \* position of the call inside ProcessFile
    hdr,            \* the header returned by processHeader
    hdrErr,         \* the error returned by processHeader
    ifds,           \* what processIfds returned (jpeg, cDate, err, ...)
    raw,            \* the RawFile under construction / returned
    retErr,         \* the error ProcessFile returned
    openHandles,    \* os.File handles opened and not closed
    headerReads,    \* calls of processHeader made
    codecCalls,     \* the (data, filename) of every decodeAndWriteJpeg(data, ...)
    \* ---- harness for the pure conversion functions ----
    cv,
    \* ---- harness for parseDateTime ----
    dt,
    \* ---- ProcessFile calls of several workers on parser instances ----
    instances,      \* the parser objects: instances[i] = [kind, flag]
    workers,        \* workers[w]: the locals of worker w's ProcessFile call
    disk,           \* the output files written: a set of [path, data, quality]
    setCalls,       \* calls of SetHostIsLittleEndian made
    \* ---- a RawParsers registry ----
    registry,       \* parserMap: the set of [key, parser] pairs, one per key present
    regLog,         \* the Register / DeleteParser calls made, in order
    got             \* the last GetParser call: [key, parser]

callVars == <<parserKind, hostIsLE, info, fileExists, file, pc, hdr, hdrErr, ifds,
              raw, retErr, openHandles, headerReads, codecCalls>>
vars == <<parserKind, hostIsLE, info, fileExists, file, pc, hdr, hdrErr, ifds,
          raw, retErr, openHandles, headerReads, codecCalls, cv, dt,
          instances, workers, disk, setCalls, registry, regLog, got>>
workerVars == <<instances, workers, disk, setCalls>>
regVars == <<registry, regLog, got>>

\* No worker, no parser object and no registry is part of the run.
NoWorkers == instances = <<>> /\ workers = <<>> /\ disk = {} /\ setCalls = 0
NoRegistry == registry = {} /\ regLog = <<>> /\ got = <<>>

--------------------------------------------------------------------------
(* Errors *)

NoErr == "nil"
ErrOpen == "open: no such file or directory"
ErrShortRead == "read n bytes; expected m"
ErrEOF == "EOF"
ErrInvalidJpegLength == "invalid jpeg length"
ErrCodec == "codec failure"
ErrDateTimeInvalid == "dateTime string invalid"
ErrDateFormat == "invalid date and/or time string format"
ErrInvalidMonth == "invalid month"
ErrTimeParse == "parsing time: cannot parse"

--------------------------------------------------------------------------
(* Integer widths *)

Byte == 0..255
TwoTo8 == 256
TwoTo16 == 65536
TwoTo14 == TwoTo16 \div 4
Far == TwoTo14 * TwoTo16        \* 2^30

U32(hi, lo) == [hi |-> hi, lo |-> lo]
U32Zero == U32(0, 0)

\* int64(v) of a uint32 v.  Exact below 2^30; every value from 2^30 on is
\* mapped to Far, which as an offset or a length lies beyond the end of
\* every file of the model exactly as the true value does (and leaves room
\* for the cursor arithmetic within the checker's 32-bit integers).
U32ToInt(v) == IF v.hi < TwoTo14 THEN v.hi * TwoTo16 + v.lo ELSE Far

--------------------------------------------------------------------------
(* tiffutils.go: primitive conversions *)

\* buf is Go's buf[0], buf[1] at indices 1, 2.
bytesToUShort(isHostLittleEndian, isBigEndian, buf) ==
    IF isBigEndian /\ isHostLittleEndian
    THEN buf[1] * TwoTo8 + buf[2]
    ELSE buf[2] * TwoTo8 + buf[1]

\* A plausible slip: the two halves are combined in the same order in both branches.
bytesToUInt_noSwap(isHostLittleEndian, isBigEndian, buf) ==
    LET a == bytesToUShort(isHostLittleEndian, isBigEndian, SubSeq(buf, 1, 2))
        b == bytesToUShort(isHostLittleEndian, isBigEndian, SubSeq(buf, 3, 4))
    IN  U32(b, a)

bytesToUInt(isHostLittleEndian, isBigEndian, buf) ==
    LET a == bytesToUShort(isHostLittleEndian, isBigEndian, SubSeq(buf, 1, 2))
        b == bytesToUShort(isHostLittleEndian, isBigEndian, SubSeq(buf, 3, 4))
    IN  IF isBigEndian /\ isHostLittleEndian
        THEN U32(a, b)      \* uint32(a)<<16 | uint32(b)
        ELSE U32(b, a)      \* uint32(b)<<16 | uint32(a)

bytesToASCIIString(bytes) == bytes

\* A plausible slip: the two halves are taken the wrong way round.
processShortValue_swapped(isFileBe, val) ==
    IF isFileBe THEN val.lo ELSE val.hi

processShortValue(isFileBe, val) ==
    LET msb == val.hi       \* val >> 16
        lsb == val.lo       \* val & 0x0000FFFF
    IN  IF isFileBe THEN msb ELSE lsb

--------------------------------------------------------------------------
(* tiffutils.go: reads from the file *)

Min(a, b) == IF a < b THEN a ELSE b
Max(a, b) == IF a > b THEN a ELSE b

\* The n of f.ReadAt(cache, offset): the bytes available from offset on, at
\* most bytesToRead.
BytesRead(offset, bytesToRead, f) ==
    IF offset >= Len(f) THEN 0 ELSE Min(bytesToRead, Len(f) - offset)

\* The error of readField: set whenever bytesRead != bytesToRead.
ReadErr(offset, bytesToRead, f) ==
    IF BytesRead(offset, bytesToRead, f) # bytesToRead THEN ErrShortRead ELSE NoErr

\* The cache of readField: make([]byte, bytesToRead), filled with what was read.
ReadBytes(offset, bytesToRead, f) ==
    [i \in 1..bytesToRead |-> IF offset + i <= Len(f) THEN f[offset + i] ELSE 0]

readField(offset, bytesToRead, f) ==
    [bytes |-> ReadBytes(offset, bytesToRead, f),
     err   |-> ReadErr(offset, bytesToRead, f)]


--------------------------------------------------------------------------
(* tiffutils.go: processIfd *)

IfdEntry(tag, fieldType, count, valueOffset) ==
    [tag |-> tag, fieldType |-> fieldType, count |-> count, valueOffset |-> valueOffset]

\* The loop of processIfd from iteration i on: offset is the cursor, l the
\* list built so far, err the error of the last readField made.
RECURSIVE ProcessIfdLoop(_, _, _, _, _, _, _, _)
ProcessIfdLoop(isHostLe, isFileBe, offset, f, entries, i, l, err) ==
    IF i >= entries THEN [l |-> l, err |-> err]
    ELSE
        LET tagF == readField(offset, 2, f) IN
        IF tagF.err # NoErr THEN [l |-> l, err |-> tagF.err] ELSE
        LET typeF == readField(offset + 2, 2, f) IN
        IF typeF.err # NoErr THEN [l |-> l, err |-> typeF.err] ELSE
        LET countF == readField(offset + 4, 4, f) IN
        IF countF.err # NoErr THEN [l |-> l, err |-> countF.err] ELSE
        LET valueF == readField(offset + 8, 4, f) IN
        IF valueF.err # NoErr THEN [l |-> l, err |-> valueF.err] ELSE
        LET entry == IfdEntry(bytesToUShort(isHostLe, isFileBe, tagF.bytes),
                              bytesToUShort(isHostLe, isFileBe, typeF.bytes),
                              bytesToUInt(isHostLe, isFileBe, countF.bytes),
                              bytesToUInt(isHostLe, isFileBe, valueF.bytes))
        IN  ProcessIfdLoop(isHostLe, isFileBe, offset + 12, f, entries, i + 1,
                           Append(l, entry), valueF.err)

\* A plausible slip: the cursor is not moved past the entry count.
processIfd_countNotSkipped(isHostLe, isFileBe, offset, f) ==
    LET c == readField(offset, 2, f)
        entries == bytesToUShort(isHostLe, isFileBe, c.bytes)
    IN  ProcessIfdLoop(isHostLe, isFileBe, offset, f, entries, 0, <<>>, c.err)

\* The error of the count read is not tested: the count is taken from the
\* (zero-filled) cache whatever was read.
processIfd(isHostLe, isFileBe, offset, f) ==
    LET c == readField(offset, 2, f)
        entries == bytesToUShort(isHostLe, isFileBe, c.bytes)
    IN  ProcessIfdLoop(isHostLe, isFileBe, offset + 2, f, entries, 0, <<>>, c.err)

\* uint32 division num / den for den > 0, on operands below 2^30 (the
\* rationals of the model's files); the quotient fits 30 bits.
U32Div(num, den) ==
    LET q == U32ToInt(num) \div U32ToInt(den)
    IN  U32(q \div TwoTo16, q % TwoTo16)

\* A plausible slip: the denominator is read first.
processRationalEntry_denFirst(isHostLe, isFileBe, offset, f) ==
    LET denF == readField(U32ToInt(offset), 4, f)
        den  == bytesToUInt(isHostLe, isFileBe, denF.bytes)
        numF == readField(U32ToInt(offset) + 4, 4, f)
        num  == bytesToUInt(isHostLe, isFileBe, numF.bytes)
    IN  [num |-> num, den |-> den,
         r   |-> IF den # U32Zero THEN U32Div(num, den) ELSE U32Zero,
         err |-> numF.err]

\* Both reads are made whatever the first returned; err is the second's.
processRationalEntry(isHostLe, isFileBe, offset, f) ==
    LET numF == readField(U32ToInt(offset), 4, f)
        num  == bytesToUInt(isHostLe, isFileBe, numF.bytes)
        denF == readField(U32ToInt(offset) + 4, 4, f)
        den  == bytesToUInt(isHostLe, isFileBe, denF.bytes)
    IN  [num |-> num, den |-> den,
         r   |-> IF den # U32Zero THEN U32Div(num, den) ELSE U32Zero,
         err |-> denF.err]

\* The string is built only from a complete read: on a short read the callers
\* drop val, and entry.count may ask for up to 2^32-1 bytes.
processASCIIEntry(entry, f) ==
    LET err == ReadErr(U32ToInt(entry.valueOffset), U32ToInt(entry.count), f)
    IN  [val |-> IF err = NoErr
                 THEN bytesToASCIIString(ReadBytes(U32ToInt(entry.valueOffset),
                                                   U32ToInt(entry.count), f))
                 ELSE <<>>,
         err |-> err]

--------------------------------------------------------------------------
(* rawparser.go: parseDateTime, toRfc822Date; the library calls they make *)

\* ASCII codes
ChSpace == 32
ChPlus == 43
ChMinus == 45
Ch0 == 48
Ch9 == 57
ChColon == 58

Drop(s, n) == SubSeq(s, n + 1, Len(s))
IsDigitAt(s, i) == Len(s) >= i /\ s[i] >= Ch0 /\ s[i] <= Ch9

\* strings.Split(s, sep) for a one-byte separator: the tokens between the
\* separators, Count(sep)+1 of them (one empty token for the empty string).
RECURSIVE SplitFrom(_, _, _, _, _)
SplitFrom(s, sep, i, cur, acc) ==
    IF i > Len(s) THEN Append(acc, cur)
    ELSE IF s[i] = sep THEN SplitFrom(s, sep, i + 1, <<>>, Append(acc, cur))
    ELSE SplitFrom(s, sep, i + 1, Append(cur, s[i]), acc)

Split(s, sep) == SplitFrom(s, sep, 1, <<>>, <<>>)

\* The case labels "01".."12" and the abbreviations they select.
MonthTokens ==
    << <<48, 49>>, <<48, 50>>, <<48, 51>>, <<48, 52>>, <<48, 53>>, <<48, 54>>,
       <<48, 55>>, <<48, 56>>, <<48, 57>>, <<49, 48>>, <<49, 49>>, <<49, 50>> >>

MonthAbbrevs ==
    << <<74, 97, 110>>,  \* Jan
       <<70, 101, 98>>,  \* Feb
       <<77, 97, 114>>,  \* Mar
       <<65, 112, 114>>, \* Apr
       <<77, 97, 121>>,  \* May
       <<74, 117, 110>>, \* Jun
       <<74, 117, 108>>, \* Jul
       <<65, 117, 103>>, \* Aug
       <<83, 101, 112>>, \* Sep
       <<79, 99, 116>>,  \* Oct
       <<78, 111, 118>>, \* Nov
       <<68, 101, 99>> >> \* Dec

\* A plausible variant: the month read as a number, so that "1" is January.
toRfc822Date_numeric(dateTokens) ==
    LET token == dateTokens[2]
        n == IF Len(token) = 1 /\ IsDigitAt(token, 1) THEN token[1] - Ch0
             ELSE IF Len(token) = 2 /\ IsDigitAt(token, 1) /\ IsDigitAt(token, 2)
             THEN (token[1] - Ch0) * 10 + (token[2] - Ch0)
             ELSE 0
    IN  IF n \in 1..12 THEN [monthStr |-> MonthAbbrevs[n], e |-> NoErr]
        ELSE [monthStr |-> <<>>, e |-> ErrInvalidMonth]

\* token is dateTokens[1] (the second token).
toRfc822Date(dateTokens) ==
    LET token == dateTokens[2]
    IN  IF \E m \in 1..12 : MonthTokens[m] = token
        THEN [monthStr |-> MonthAbbrevs[CHOOSE m \in 1..12 : MonthTokens[m] = token],
              e |-> NoErr]
        ELSE [monthStr |-> <<>>, e |-> ErrInvalidMonth]

\* time.Time, to the second (UTC).  The zero Time is January 1, year 1, 00:00:00.
Time(year, month, day, hour, min, sec) ==
    [year |-> year, month |-> month, day |-> day, hour |-> hour, min |-> min, sec |-> sec]
ZeroTime == Time(1, 1, 1, 0, 0, 0)

IsLeap(year) == year % 4 = 0 /\ (year % 100 # 0 \/ year % 400 = 0)
DaysIn(month, year) ==
    IF month = 2 THEN (IF IsLeap(year) THEN 29 ELSE 28)
    ELSE IF month \in {4, 6, 9, 11} THEN 30 ELSE 31

\* Go's string(b) of a byte b: the UTF-8 encoding of the code point b.
ByteToString(b) ==
    IF b < 128 THEN <<b>> ELSE <<192 + (b \div 64), 128 + (b % 64)>>

\* time: getnum(s, fixed): one or two leading digits (two required if fixed).
GetNum(s, fixed) ==
    IF ~IsDigitAt(s, 1) THEN [ok |-> FALSE, n |-> 0, rest |-> s]
    ELSE IF ~IsDigitAt(s, 2)
         THEN (IF fixed THEN [ok |-> FALSE, n |-> 0, rest |-> s]
               ELSE [ok |-> TRUE, n |-> s[1] - Ch0, rest |-> Drop(s, 1)])
         ELSE [ok |-> TRUE, n |-> (s[1] - Ch0) * 10 + (s[2] - Ch0), rest |-> Drop(s, 2)]

\* time: cutspace
RECURSIVE CutSpace(_)
CutSpace(s) == IF Len(s) > 0 /\ s[1] = ChSpace THEN CutSpace(Drop(s, 1)) ELSE s

\* time: skip(value, " "): a space of the layout matches any run of spaces.
SkipSpace(s) ==
    IF Len(s) > 0 /\ s[1] # ChSpace THEN [ok |-> FALSE, rest |-> s]
    ELSE [ok |-> TRUE, rest |-> CutSpace(s)]

\* time: skip(value, ":")
SkipColon(s) ==
    IF Len(s) = 0 \/ s[1] # ChColon THEN [ok |-> FALSE, rest |-> s]
    ELSE [ok |-> TRUE, rest |-> Drop(s, 1)]

Lower(c) == IF c >= 65 /\ c <= 90 THEN c + 32 ELSE c

\* time: lookup(shortMonthNames, value): the first abbreviation that is a
\* prefix of value, letter case ignored.
LookupMonth(s) ==
    LET hit(m) == Len(s) >= 3 /\ \A k \in 1..3 : Lower(s[k]) = Lower(MonthAbbrevs[m][k])
    IN  IF \E m \in 1..12 : hit(m)
        THEN [ok |-> TRUE, n |-> CHOOSE m \in 1..12 : hit(m), rest |-> Drop(s, 3)]
        ELSE [ok |-> FALSE, n |-> 0, rest |-> s]

\* time: the two-character year of layout element "06": atoi admits a sign;
\* 69..99 are 1969..1999, everything below 69 is counted from 2000.
ParseYear2(s) ==
    IF Len(s) < 2 THEN [ok |-> FALSE, n |-> 0, rest |-> s]
    ELSE LET yy == IF IsDigitAt(s, 1) /\ IsDigitAt(s, 2)
                   THEN [ok |-> TRUE, n |-> (s[1] - Ch0) * 10 + (s[2] - Ch0)]
                   ELSE IF s[1] = ChPlus /\ IsDigitAt(s, 2)
                   THEN [ok |-> TRUE, n |-> s[2] - Ch0]
                   ELSE IF s[1] = ChMinus /\ IsDigitAt(s, 2)
                   THEN [ok |-> TRUE, n |-> 0 - (s[2] - Ch0)]
                   ELSE [ok |-> FALSE, n |-> 0]
         IN  [ok |-> yy.ok,
              n  |-> IF yy.n >= 69 THEN yy.n + 1900 ELSE yy.n + 2000,
              rest |-> Drop(s, 2)]

\* time.Parse("02 Jan 06 15:04", value)
TimeParse(value) ==
    LET bad  == [t |-> ZeroTime, err |-> ErrTimeParse]
        day  == GetNum(value, TRUE)
        sp1  == SkipSpace(day.rest)
        mon  == LookupMonth(sp1.rest)
        sp2  == SkipSpace(mon.rest)
        year == ParseYear2(sp2.rest)
        sp3  == SkipSpace(year.rest)
        hour == GetNum(sp3.rest, FALSE)
        col  == SkipColon(hour.rest)
        min  == GetNum(col.rest, TRUE)
    IN  IF ~day.ok \/ ~sp1.ok \/ ~mon.ok \/ ~sp2.ok \/ ~year.ok \/ ~sp3.ok
           \/ ~hour.ok \/ ~col.ok \/ ~min.ok
        THEN bad
        ELSE IF Len(min.rest) > 0 THEN bad                      \* extra text
        ELSE IF hour.n >= 24 \/ min.n >= 60 THEN bad            \* out of range
        ELSE IF day.n < 1 \/ day.n > DaysIn(mon.n, year.n) THEN bad
        ELSE [t |-> Time(year.n, mon.n, day.n, hour.n, min.n, 0), err |-> NoErr]

\* A plausible variant: a parser that takes the time token as "HH:MM:SS" and
\* nothing else, so that a byte after the seconds is a format error.
parseDateTime_strictTime(s) ==
    LET split == Split(s, ChSpace) IN
    IF Len(split) # 2 \/ Len(split[2]) # 8
    THEN [t |-> ZeroTime, err |-> ErrDateTimeInvalid, panic |-> FALSE]
    ELSE
    LET dateTokens == Split(split[1], ChColon)
        timeTokens == Split(split[2], ChColon)
    IN  IF Len(dateTokens) = 3 /\ Len(timeTokens) = 3
        THEN LET m == toRfc822Date(dateTokens) IN
             IF m.e # NoErr THEN [t |-> ZeroTime, err |-> m.e, panic |-> FALSE]
             ELSE IF Len(dateTokens[1]) < 4
             THEN [t |-> ZeroTime, err |-> NoErr, panic |-> TRUE]
             ELSE
             LET dateStr == dateTokens[3] \o <<ChSpace>> \o m.monthStr \o <<ChSpace>>
                            \o ByteToString(dateTokens[1][3])
                            \o ByteToString(dateTokens[1][4])
                 r == TimeParse(dateStr \o <<ChSpace>> \o timeTokens[1]
                                \o <<ChColon>> \o timeTokens[2])
             IN  [t |-> r.t, err |-> r.err, panic |-> FALSE]
        ELSE [t |-> ZeroTime, err |-> ErrDateFormat, panic |-> FALSE]

\* panic: dateTokens[0][2] or dateTokens[0][3] indexes past the end of the
\* year token (a run-time panic: index out of range).
parseDateTime(s) ==
    LET split == Split(s, ChSpace) IN
    IF Len(split) # 2
    THEN [t |-> ZeroTime, err |-> ErrDateTimeInvalid, panic |-> FALSE]
    ELSE
    LET dateToken  == split[1]
        timeToken  == split[2]
        dateTokens == Split(dateToken, ChColon)
        timeTokens == Split(timeToken, ChColon)
    IN  IF Len(dateTokens) = 3 /\ Len(timeTokens) = 3
        THEN LET m == toRfc822Date(dateTokens) IN
             IF m.e # NoErr THEN [t |-> ZeroTime, err |-> m.e, panic |-> FALSE]
             ELSE IF Len(dateTokens[1]) < 4
             THEN [t |-> ZeroTime, err |-> NoErr, panic |-> TRUE]
             ELSE
             LET dateStr == dateTokens[3] \o <<ChSpace>> \o m.monthStr \o <<ChSpace>>
                            \o ByteToString(dateTokens[1][3])
                            \o ByteToString(dateTokens[1][4])
                 r == TimeParse(dateStr \o <<ChSpace>> \o timeTokens[1]
                                \o <<ChColon>> \o timeTokens[2])
             IN  [t |-> r.t, err |-> r.err, panic |-> FALSE]
        ELSE [t |-> ZeroTime, err |-> ErrDateFormat, panic |-> FALSE]

--------------------------------------------------------------------------
(* nefparser.go, cr2parser.go: tags and headers *)

ByteOrderMM == 19789        \* 0x4D4D
TagStripOffsets == 273      \* 0x0111
TagOrientation == 274       \* 0x0112
TagStripByteCounts == 279   \* 0x0117
TagXResolution == 282       \* 0x011a
TagYResolution == 283       \* 0x011b
TagSubIFDs == 330           \* 0x014a
TagJpegOffset == 513        \* 0x0201
TagJpegLength == 514        \* 0x0202
TagExifIFD == 34665         \* 0x8769
TagDateTimeDigitized == 36868   \* 0x9004
OrientationRotate270 == 8
Rotate270Degrees == 270     \* 270 * math.Pi / 180, in units of math.Pi / 180

NefHeader(isBigEndian, tiffMagicValue, tiffOffset) ==
    [isBigEndian |-> isBigEndian, tiffMagicValue |-> tiffMagicValue,
     tiffOffset |-> tiffOffset]

\* A plausible slip: the magic and the offset are converted without the
\* file's byte order (isBigEndian left false).
NefProcessHeader_notConverted(isHostLe, f) ==
    LET orderF == readField(0, 2, f)
        magicF == readField(2, 2, f)
        offF == readField(4, 4, f)
    IN  [h |-> NefHeader(bytesToUShort(isHostLe, FALSE, orderF.bytes) = ByteOrderMM,
                         bytesToUShort(isHostLe, FALSE, magicF.bytes),
                         U32ToInt(bytesToUInt(isHostLe, FALSE, offF.bytes))),
         err |-> offF.err]

\* NefParser.processHeader: h is returned as far as it was filled.
NefProcessHeader(isHostLe, f) ==
    LET h0 == NefHeader(FALSE, 0, 0)
        orderF == readField(0, 2, f)
    IN  IF orderF.err # NoErr THEN [h |-> h0, err |-> orderF.err] ELSE
        LET byteOrder == bytesToUShort(isHostLe, FALSE, orderF.bytes)
            h1 == [h0 EXCEPT !.isBigEndian = (byteOrder = ByteOrderMM)]
            magicF == readField(2, 2, f)
        IN  IF magicF.err # NoErr THEN [h |-> h1, err |-> magicF.err] ELSE
        LET h2 == [h1 EXCEPT !.tiffMagicValue =
                                 bytesToUShort(isHostLe, h1.isBigEndian, magicF.bytes)]
            offF == readField(4, 4, f)
        IN  IF offF.err # NoErr THEN [h |-> h2, err |-> offF.err] ELSE
        LET val == bytesToUInt(isHostLe, h2.isBigEndian, offF.bytes)
        IN  [h |-> [h2 EXCEPT !.tiffOffset = U32ToInt(val)], err |-> offF.err]

Cr2Header(isBigEndian, tiffMagicValue, tiffOffset, cr2MagicValue, cr2MajorValue, cr2MinorValue) ==
    [isBigEndian |-> isBigEndian, tiffMagicValue |-> tiffMagicValue,
     tiffOffset |-> tiffOffset, cr2MagicValue |-> cr2MagicValue,
     cr2MajorValue |-> cr2MajorValue, cr2MinorValue |-> cr2MinorValue]

\* Cr2Parser.processHeader: the TIFF prefix as for NEF, then the CR2 magic
\* (not converted), the major and the minor version.
Cr2ProcessHeader(isHostLe, f) ==
    LET h0 == Cr2Header(FALSE, 0, 0, <<>>, 0, 0)
        orderF == readField(0, 2, f)
    IN  IF orderF.err # NoErr THEN [h |-> h0, err |-> orderF.err] ELSE
        LET byteOrder == bytesToUShort(isHostLe, FALSE, orderF.bytes)
            h1 == [h0 EXCEPT !.isBigEndian = (byteOrder = ByteOrderMM)]
            magicF == readField(2, 2, f)
        IN  IF magicF.err # NoErr THEN [h |-> h1, err |-> magicF.err] ELSE
        LET h2 == [h1 EXCEPT !.tiffMagicValue =
                                 bytesToUShort(isHostLe, h1.isBigEndian, magicF.bytes)]
            offF == readField(4, 4, f)
        IN  IF offF.err # NoErr THEN [h |-> h2, err |-> offF.err] ELSE
        LET val == bytesToUInt(isHostLe, h2.isBigEndian, offF.bytes)
            h3 == [h2 EXCEPT !.tiffOffset = U32ToInt(val)]
            cr2F == readField(8, 2, f)
        IN  IF cr2F.err # NoErr THEN [h |-> h3, err |-> cr2F.err] ELSE
        LET h4 == [h3 EXCEPT !.cr2MagicValue = bytesToASCIIString(cr2F.bytes)]
            majF == readField(10, 1, f)
        IN  IF majF.err # NoErr THEN [h |-> h4, err |-> majF.err] ELSE
        LET h5 == [h4 EXCEPT !.cr2MajorValue = majF.bytes[1]]
            minF == readField(11, 1, f)
        IN  IF minF.err # NoErr THEN [h |-> h5, err |-> minF.err] ELSE
            [h |-> [h5 EXCEPT !.cr2MinorValue = minF.bytes[1]], err |-> minF.err]

--------------------------------------------------------------------------
(* nefparser.go, cr2parser.go: processIfds *)

JpegInfo0 ==
    [orientation |-> 0, offset |-> 0, length |-> 0,
     xRes |-> U32Zero, yRes |-> U32Zero, xResFloat |-> U32Zero, yResFloat |-> U32Zero]

\* What processIfds returns, with what it did: walked is the number of root
\* entries it interpreted to the end, decodes the number of processIfd calls
\* it made, panic whether it ended in a run-time panic instead of returning.
IfdsResult(jpeg, cDate, err, panic, walked, decodes) ==
    [jpeg |-> jpeg, cDate |-> cDate, err |-> err, panic |-> panic,
     walked |-> walked, decodes |-> decodes]

\* The orientation branch, the same in both parsers.
OrientationOf(isFileBe, entry) ==
    LET o == processShortValue(isFileBe, entry.valueOffset)
    IN  IF o = OrientationRotate270 THEN Rotate270Degrees ELSE 0

\* The loop over the EXIF entries, the same in both parsers: cDate is
\* assigned from every 0x9004 entry whose bytes could be read, whatever
\* parseDateTime returned for them (NEF: cDate, err = ...; CR2: cDate, _ = ...,
\* the err being a variable of the if block that nothing reads).
RECURSIVE ExifLoop(_, _, _, _)
ExifLoop(f, exifEntries, i, cDate) ==
    IF i > Len(exifEntries) THEN [cDate |-> cDate, panic |-> FALSE]
    ELSE LET exifEntry == exifEntries[i] IN
         IF exifEntry.tag = TagDateTimeDigitized
         THEN LET a == processASCIIEntry(exifEntry, f) IN
              IF a.err = NoErr
              THEN LET d == parseDateTime(a.val) IN
                   IF d.panic THEN [cDate |-> cDate, panic |-> TRUE]
                   ELSE ExifLoop(f, exifEntries, i + 1, d.t)
              ELSE ExifLoop(f, exifEntries, i + 1, cDate)
         ELSE ExifLoop(f, exifEntries, i + 1, cDate)

\* The loop over the SubIFD entries (NEF).  The err that the two
\* processRationalEntry calls assign is a variable of the enclosing if block
\* that nothing reads afterwards.
RECURSIVE NefSubLoop(_, _, _, _, _, _)
NefSubLoop(isHostLe, isFileBe, f, subEntries, i, jpeg) ==
    IF i > Len(subEntries) THEN jpeg
    ELSE LET e == subEntries[i]
             x == processRationalEntry(isHostLe, isFileBe, e.valueOffset, f)
             j1 == IF e.tag = TagXResolution
                   THEN [jpeg EXCEPT !.xRes = x.num, !.xResFloat = x.r] ELSE jpeg
             j2 == IF e.tag = TagYResolution
                   THEN [j1 EXCEPT !.yRes = x.num, !.yResFloat = x.r] ELSE j1
             j3 == IF e.tag = TagJpegOffset
                   THEN [j2 EXCEPT !.offset = U32ToInt(e.valueOffset)] ELSE j2
             j4 == IF e.tag = TagJpegLength
                   THEN [j3 EXCEPT !.length = U32ToInt(e.valueOffset)] ELSE j3
         IN  NefSubLoop(isHostLe, isFileBe, f, subEntries, i + 1, j4)

\* The loop over the root entries (NEF), from entry i on.
RECURSIVE NefRootLoop(_, _, _, _, _, _, _, _)
\* A variant that skips a SubIFD or EXIF IFD whose decode failed and goes on.
NefRootLoop_goesOn(isHostLe, h, f, entries, i, jpeg, cDate, decodes) ==
    IF i > Len(entries)
    THEN IfdsResult(jpeg, cDate, NoErr, FALSE, Len(entries), decodes)
    ELSE
    LET entry == entries[i] IN
    IF entry.tag = TagSubIFDs
    THEN LET ptrF == readField(U32ToInt(entry.valueOffset), 4, f) IN
         IF ptrF.err = NoErr
         THEN LET subID0Offset == U32ToInt(bytesToUInt(isHostLe, h.isBigEndian, ptrF.bytes))
                  sub == processIfd(isHostLe, h.isBigEndian, subID0Offset, f)
              IN  IF sub.err = NoErr
                  THEN NefRootLoop(isHostLe, h, f, entries, i + 1,
                                   NefSubLoop(isHostLe, h.isBigEndian, f, sub.l, 1, jpeg),
                                   cDate, decodes + 1)
                  ELSE NefRootLoop(isHostLe, h, f, entries, i + 1, jpeg, cDate, decodes + 1)
         ELSE NefRootLoop(isHostLe, h, f, entries, i + 1, jpeg, cDate, decodes)
    ELSE IF entry.tag = TagOrientation
    THEN NefRootLoop(isHostLe, h, f, entries, i + 1,
                     [jpeg EXCEPT !.orientation = OrientationOf(h.isBigEndian, entry)],
                     cDate, decodes)
    ELSE IF entry.tag = TagExifIFD
    THEN LET exif == processIfd(isHostLe, h.isBigEndian, U32ToInt(entry.valueOffset), f) IN
         IF exif.err = NoErr
         THEN LET x == ExifLoop(f, exif.l, 1, cDate) IN
              IF x.panic
              THEN IfdsResult(jpeg, x.cDate, NoErr, TRUE, i - 1, decodes + 1)
              ELSE NefRootLoop(isHostLe, h, f, entries, i + 1, jpeg, x.cDate, decodes + 1)
         ELSE NefRootLoop(isHostLe, h, f, entries, i + 1, jpeg, cDate, decodes + 1)
    ELSE NefRootLoop(isHostLe, h, f, entries, i + 1, jpeg, cDate, decodes)

\* A variant that takes the SubIFD to be at entry.valueOffset itself.
NefRootLoop_noIndirection(isHostLe, h, f, entries, i, jpeg, cDate, decodes) ==
    IF i > Len(entries)
    THEN IfdsResult(jpeg, cDate, NoErr, FALSE, Len(entries), decodes)
    ELSE
    LET entry == entries[i] IN
    IF entry.tag = TagSubIFDs
    THEN LET ptrF == readField(U32ToInt(entry.valueOffset), 4, f) IN
         IF ptrF.err = NoErr
         THEN LET subID0Offset == U32ToInt(entry.valueOffset)
                  sub == processIfd(isHostLe, h.isBigEndian, subID0Offset, f)
              IN  IF sub.err = NoErr
                  THEN NefRootLoop(isHostLe, h, f, entries, i + 1,
                                   NefSubLoop(isHostLe, h.isBigEndian, f, sub.l, 1, jpeg),
                                   cDate, decodes + 1)
                  ELSE IfdsResult(jpeg, cDate, sub.err, FALSE, i - 1, decodes + 1)
         ELSE NefRootLoop(isHostLe, h, f, entries, i + 1, jpeg, cDate, decodes)
    ELSE IF entry.tag = TagOrientation
    THEN NefRootLoop(isHostLe, h, f, entries, i + 1,
                     [jpeg EXCEPT !.orientation = OrientationOf(h.isBigEndian, entry)],
                     cDate, decodes)
    ELSE IF entry.tag = TagExifIFD
    THEN LET exif == processIfd(isHostLe, h.isBigEndian, U32ToInt(entry.valueOffset), f) IN
         IF exif.err = NoErr
         THEN LET x == ExifLoop(f, exif.l, 1, cDate) IN
              IF x.panic
              THEN IfdsResult(jpeg, x.cDate, NoErr, TRUE, i - 1, decodes + 1)
              ELSE NefRootLoop(isHostLe, h, f, entries, i + 1, jpeg, x.cDate, decodes + 1)
         ELSE IfdsResult(jpeg, cDate, exif.err, FALSE, i - 1, decodes + 1)
    ELSE NefRootLoop(isHostLe, h, f, entries, i + 1, jpeg, cDate, decodes)

NefRootLoop(isHostLe, h, f, entries, i, jpeg, cDate, decodes) ==
    IF i > Len(entries)
    THEN IfdsResult(jpeg, cDate, NoErr, FALSE, Len(entries), decodes)
    ELSE
    LET entry == entries[i] IN
    IF entry.tag = TagSubIFDs
    THEN LET ptrF == readField(U32ToInt(entry.valueOffset), 4, f) IN
         IF ptrF.err = NoErr
         THEN LET subID0Offset == U32ToInt(bytesToUInt(isHostLe, h.isBigEndian, ptrF.bytes))
                  sub == processIfd(isHostLe, h.isBigEndian, subID0Offset, f)
              IN  IF sub.err = NoErr
                  THEN NefRootLoop(isHostLe, h, f, entries, i + 1,
                                   NefSubLoop(isHostLe, h.isBigEndian, f, sub.l, 1, jpeg),
                                   cDate, decodes + 1)
                  ELSE IfdsResult(jpeg, cDate, sub.err, FALSE, i - 1, decodes + 1)
         ELSE NefRootLoop(isHostLe, h, f, entries, i + 1, jpeg, cDate, decodes)
    ELSE IF entry.tag = TagOrientation
    THEN NefRootLoop(isHostLe, h, f, entries, i + 1,
                     [jpeg EXCEPT !.orientation = OrientationOf(h.isBigEndian, entry)],
                     cDate, decodes)
    ELSE IF entry.tag = TagExifIFD
    THEN LET exif == processIfd(isHostLe, h.isBigEndian, U32ToInt(entry.valueOffset), f) IN
         IF exif.err = NoErr
         THEN LET x == ExifLoop(f, exif.l, 1, cDate) IN
              IF x.panic
              THEN IfdsResult(jpeg, x.cDate, NoErr, TRUE, i - 1, decodes + 1)
              ELSE NefRootLoop(isHostLe, h, f, entries, i + 1, jpeg, x.cDate, decodes + 1)
         ELSE IfdsResult(jpeg, cDate, exif.err, FALSE, i - 1, decodes + 1)
    ELSE NefRootLoop(isHostLe, h, f, entries, i + 1, jpeg, cDate, decodes)

\* NefParser.processIfds
NefProcessIfds(isHostLe, h, f) ==
    LET root == processIfd(isHostLe, h.isBigEndian, h.tiffOffset, f)
    IN  IF root.err = NoErr
        THEN NefRootLoop(isHostLe, h, f, root.l, 1, JpegInfo0, ZeroTime, 1)
        ELSE IfdsResult(JpegInfo0, ZeroTime, root.err, FALSE, 0, 1)

\* The loop over the root entries (CR2), from entry i on.  err is the
\* function's result variable, which the two resolution cases assign.
RECURSIVE Cr2RootLoop(_, _, _, _, _, _, _, _, _)
\* A variant that swallows the failure of the EXIF IFD decode and goes on.
Cr2RootLoop_swallows(isHostLe, h, f, entries, i, jpeg, cDate, err, decodes) ==
    IF i > Len(entries)
    THEN IfdsResult(jpeg, cDate, err, FALSE, Len(entries), decodes)
    ELSE
    LET entry == entries[i] IN
    IF entry.tag = TagStripOffsets
    THEN Cr2RootLoop(isHostLe, h, f, entries, i + 1,
                     [jpeg EXCEPT !.offset = U32ToInt(entry.valueOffset)],
                     cDate, err, decodes)
    ELSE IF entry.tag = TagOrientation
    THEN Cr2RootLoop(isHostLe, h, f, entries, i + 1,
                     [jpeg EXCEPT !.orientation = OrientationOf(h.isBigEndian, entry)],
                     cDate, err, decodes)
    ELSE IF entry.tag = TagStripByteCounts
    THEN Cr2RootLoop(isHostLe, h, f, entries, i + 1,
                     [jpeg EXCEPT !.length = U32ToInt(entry.valueOffset)],
                     cDate, err, decodes)
    ELSE IF entry.tag = TagXResolution
    THEN LET x == processRationalEntry(isHostLe, h.isBigEndian, entry.valueOffset, f) IN
         Cr2RootLoop(isHostLe, h, f, entries, i + 1,
                     [jpeg EXCEPT !.xRes = x.num, !.xResFloat = x.r],
                     cDate, x.err, decodes)
    ELSE IF entry.tag = TagYResolution
    THEN LET y == processRationalEntry(isHostLe, h.isBigEndian, entry.valueOffset, f) IN
         Cr2RootLoop(isHostLe, h, f, entries, i + 1,
                     [jpeg EXCEPT !.yRes = y.num, !.yResFloat = y.r],
                     cDate, y.err, decodes)
    ELSE IF entry.tag = TagExifIFD
    THEN LET exif == processIfd(isHostLe, h.isBigEndian, U32ToInt(entry.valueOffset), f) IN
         IF exif.err # NoErr
         THEN Cr2RootLoop(isHostLe, h, f, entries, i + 1, jpeg, cDate, err, decodes + 1)
         ELSE LET x == ExifLoop(f, exif.l, 1, cDate) IN
              IF x.panic
              THEN IfdsResult(jpeg, x.cDate, NoErr, TRUE, i - 1, decodes + 1)
              ELSE Cr2RootLoop(isHostLe, h, f, entries, i + 1, jpeg, x.cDate, err,
                               decodes + 1)
    ELSE Cr2RootLoop(isHostLe, h, f, entries, i + 1, jpeg, cDate, err, decodes)

\* A variant that also decodes the IFD of every EXIF pointer found inside
\* the EXIF IFD, one level further down.
Cr2RootLoop_twoLevels(isHostLe, h, f, entries, i, jpeg, cDate, err, decodes) ==
    IF i > Len(entries)
    THEN IfdsResult(jpeg, cDate, err, FALSE, Len(entries), decodes)
    ELSE
    LET entry == entries[i] IN
    IF entry.tag = TagStripOffsets
    THEN Cr2RootLoop(isHostLe, h, f, entries, i + 1,
                     [jpeg EXCEPT !.offset = U32ToInt(entry.valueOffset)],
                     cDate, err, decodes)
    ELSE IF entry.tag = TagOrientation
    THEN Cr2RootLoop(isHostLe, h, f, entries, i + 1,
                     [jpeg EXCEPT !.orientation = OrientationOf(h.isBigEndian, entry)],
                     cDate, err, decodes)
    ELSE IF entry.tag = TagStripByteCounts
    THEN Cr2RootLoop(isHostLe, h, f, entries, i + 1,
                     [jpeg EXCEPT !.length = U32ToInt(entry.valueOffset)],
                     cDate, err, decodes)
    ELSE IF entry.tag = TagXResolution
    THEN LET x == processRationalEntry(isHostLe, h.isBigEndian, entry.valueOffset, f) IN
         Cr2RootLoop(isHostLe, h, f, entries, i + 1,
                     [jpeg EXCEPT !.xRes = x.num, !.xResFloat = x.r],
                     cDate, x.err, decodes)
    ELSE IF entry.tag = TagYResolution
    THEN LET y == processRationalEntry(isHostLe, h.isBigEndian, entry.valueOffset, f) IN
         Cr2RootLoop(isHostLe, h, f, entries, i + 1,
                     [jpeg EXCEPT !.yRes = y.num, !.yResFloat = y.r],
                     cDate, y.err, decodes)
    ELSE IF entry.tag = TagExifIFD
    THEN LET exif == processIfd(isHostLe, h.isBigEndian, U32ToInt(entry.valueOffset), f) IN
         IF exif.err # NoErr
         THEN IfdsResult(jpeg, cDate, exif.err, FALSE, i - 1, decodes + 1)
         ELSE LET x == ExifLoop(f, exif.l, 1, cDate) IN
              IF x.panic
              THEN IfdsResult(jpeg, x.cDate, NoErr, TRUE, i - 1, decodes + 1)
              ELSE Cr2RootLoop(isHostLe, h, f, entries, i + 1, jpeg, x.cDate, err,
                               decodes + 1
                               + Cardinality({k \in 1..Len(exif.l) :
                                                exif.l[k].tag = TagExifIFD}))
    ELSE Cr2RootLoop(isHostLe, h, f, entries, i + 1, jpeg, cDate, err, decodes)

Cr2RootLoop(isHostLe, h, f, entries, i, jpeg, cDate, err, decodes) ==
    IF i > Len(entries)
    THEN IfdsResult(jpeg, cDate, err, FALSE, Len(entries), decodes)
    ELSE
    LET entry == entries[i] IN
    IF entry.tag = TagStripOffsets
    THEN Cr2RootLoop(isHostLe, h, f, entries, i + 1,
                     [jpeg EXCEPT !.offset = U32ToInt(entry.valueOffset)],
                     cDate, err, decodes)
    ELSE IF entry.tag = TagOrientation
    THEN Cr2RootLoop(isHostLe, h, f, entries, i + 1,
                     [jpeg EXCEPT !.orientation = OrientationOf(h.isBigEndian, entry)],
                     cDate, err, decodes)
    ELSE IF entry.tag = TagStripByteCounts
    THEN Cr2RootLoop(isHostLe, h, f, entries, i + 1,
                     [jpeg EXCEPT !.length = U32ToInt(entry.valueOffset)],
                     cDate, err, decodes)
    ELSE IF entry.tag = TagXResolution
    THEN LET x == processRationalEntry(isHostLe, h.isBigEndian, entry.valueOffset, f) IN
         Cr2RootLoop(isHostLe, h, f, entries, i + 1,
                     [jpeg EXCEPT !.xRes = x.num, !.xResFloat = x.r],
                     cDate, x.err, decodes)
    ELSE IF entry.tag = TagYResolution
    THEN LET y == processRationalEntry(isHostLe, h.isBigEndian, entry.valueOffset, f) IN
         Cr2RootLoop(isHostLe, h, f, entries, i + 1,
                     [jpeg EXCEPT !.yRes = y.num, !.yResFloat = y.r],
                     cDate, y.err, decodes)
    ELSE IF entry.tag = TagExifIFD
    THEN LET exif == processIfd(isHostLe, h.isBigEndian, U32ToInt(entry.valueOffset), f) IN
         IF exif.err # NoErr
         THEN IfdsResult(jpeg, cDate, exif.err, FALSE, i - 1, decodes + 1)
         ELSE LET x == ExifLoop(f, exif.l, 1, cDate) IN
              IF x.panic
              THEN IfdsResult(jpeg, x.cDate, NoErr, TRUE, i - 1, decodes + 1)
              ELSE Cr2RootLoop(isHostLe, h, f, entries, i + 1, jpeg, x.cDate, err,
                               decodes + 1)
    ELSE Cr2RootLoop(isHostLe, h, f, entries, i + 1, jpeg, cDate, err, decodes)

\* Cr2Parser.processIfds
Cr2ProcessIfds(isHostLe, h, f) ==
    LET root == processIfd(isHostLe, h.isBigEndian, h.tiffOffset, f)
    IN  IF root.err # NoErr
        THEN IfdsResult(JpegInfo0, ZeroTime, root.err, FALSE, 0, 1)
        ELSE Cr2RootLoop(isHostLe, h, f, root.l, 1, JpegInfo0, ZeroTime, root.err, 1)

--------------------------------------------------------------------------
(* rawparser.go: genExtractedJpegName; the RawFile *)

ChSlash == 47

RECURSIVE StripTrailingSlashes(_)
StripTrailingSlashes(path) ==
    IF Len(path) > 0 /\ path[Len(path)] = ChSlash
    THEN StripTrailingSlashes(SubSeq(path, 1, Len(path) - 1))
    ELSE path

\* path/filepath.Base
FilepathBase(path) ==
    IF path = <<>> THEN <<46>>                       \* "."
    ELSE LET p == StripTrailingSlashes(path)
             slashes == {i \in 1..Len(p) : p[i] = ChSlash}
             last == IF slashes = {} THEN p
                     ELSE SubSeq(p, (CHOOSE i \in slashes : \A k \in slashes : k <= i) + 1,
                                 Len(p))
         IN  IF last = <<>> THEN <<ChSlash>> ELSE last

\* "_extracted.jpg"
ExtractedSuffix == <<95, 101, 120, 116, 114, 97, 99, 116, 101, 100, 46, 106, 112, 103>>

\* name is f.Name(), the path the file was opened with.
genExtractedJpegName(name, destDir, suffix) ==
    destDir \o FilepathBase(name) \o suffix

RawFile(createDate, fileName, jpegPath, jpegOrientation) ==
    [CreateDate |-> createDate, FileName |-> fileName, JpegPath |-> jpegPath,
     JpegOrientation |-> jpegOrientation]

\* new(RawFile)
RawFile0 == RawFile(ZeroTime, <<>>, <<>>, 0)

--------------------------------------------------------------------------
(* The files of the model: TIFF-structured files built section by section   *)
(*   header | root IFD | SubIFD pointer | SubIFD | EXIF IFD | date strings   *)
(*   | one rational | JPEG data                                              *)
(* in either byte order, whole or cut short.                                 *)

MaxRootEntries == 2     \* longest root directory of the enumerated family

U16Bytes(be, v) ==
    IF be THEN <<v \div TwoTo8, v % TwoTo8>> ELSE <<v % TwoTo8, v \div TwoTo8>>

\* n < 2^30
U32Bytes(be, n) ==
    LET b0 == n % TwoTo8
        b1 == (n \div TwoTo8) % TwoTo8
        b2 == (n \div TwoTo16) % TwoTo8
        b3 == n \div (TwoTo16 * TwoTo8)
    IN  IF be THEN <<b3, b2, b1, b0>> ELSE <<b0, b1, b2, b3>>

\* A short value left-justified in the 4-byte value field.
ShortValueBytes(be, v) == U16Bytes(be, v) \o <<0, 0>>

EntryBytes(be, tag, fieldType, count, valueBytes) ==
    U16Bytes(be, tag) \o U16Bytes(be, fieldType) \o U32Bytes(be, count) \o valueBytes

RECURSIVE Flatten(_)
Flatten(ss) == IF ss = <<>> THEN <<>> ELSE Head(ss) \o Flatten(Tail(ss))

JpegData == <<255, 216, 255, 217>>

\* "2010:08:10 12:11:07" NUL
DateGood == <<50, 48, 49, 48, 58, 48, 56, 58, 49, 48, 32, 49, 50, 58, 49, 49, 58, 48, 55, 0>>
\* "1999:12:31 23:59:59" NUL
DateGood2 == <<49, 57, 57, 57, 58, 49, 50, 58, 51, 49, 32, 50, 51, 58, 53, 57, 58, 53, 57, 0>>
\* "2010:13:10 12:11:07" NUL
DateBadMonth == <<50, 48, 49, 48, 58, 49, 51, 58, 49, 48, 32, 49, 50, 58, 49, 49, 58, 48, 55, 0>>
\* "20:08:10 12:11:07" NUL NUL NUL
DateShortYear == <<50, 48, 58, 48, 56, 58, 49, 48, 32, 49, 50, 58, 49, 49, 58, 48, 55, 0, 0, 0>>

\* "unreadable" is a date entry whose string lies beyond the end of the file.
DateBytes(kind) ==
    CASE kind = "good" -> DateGood
      [] kind = "good2" -> DateGood2
      [] kind = "badMonth" -> DateBadMonth
      [] kind = "shortYear" -> DateShortYear
      [] kind = "unreadable" -> DateGood

\* "subBad", "exifBad" and "xresBad" point beyond the end of the file.
RootKinds == {"sub", "subBad", "exif", "exifBad", "orient8", "orient1", "stripOff",
              "stripLen", "xres", "xresBad", "jpegOff", "jpegLen"}
SubKinds == {"jpegOff", "jpegLen", "jpegLen0", "xres", "xresBad"}

\* The bytes of the file described by (be, root, sub, exif): root and sub are
\* sequences of entry kinds, exif a sequence of date kinds (one 0x9004 entry each).
MkFile(be, root, sub, exif) ==
    LET rootOff   == IF be THEN 8 ELSE 16
        subPtrOff == rootOff + 2 + 12 * Len(root)
        subOff    == subPtrOff + 4
        exifOff   == subOff + 2 + 12 * Len(sub)
        datesOff  == exifOff + 2 + 12 * Len(exif)
        ratOff    == datesOff + 20 * Len(exif)
        jpegOff   == ratOff + 8
        total     == jpegOff + Len(JpegData)
        header    == (IF be THEN <<77, 77>> ELSE <<73, 73>>) \o U16Bytes(be, 42)
                     \o U32Bytes(be, rootOff)
                     \o (IF rootOff = 16 THEN <<67, 82, 2, 0>> \o U32Bytes(be, 0) ELSE <<>>)
        rootEntry(k) ==
            CASE k = "sub"      -> EntryBytes(be, TagSubIFDs, 4, 1, U32Bytes(be, subPtrOff))
              [] k = "subBad"   -> EntryBytes(be, TagSubIFDs, 4, 1, U32Bytes(be, total + 64))
              [] k = "exif"     -> EntryBytes(be, TagExifIFD, 4, 1, U32Bytes(be, exifOff))
              [] k = "exifBad"  -> EntryBytes(be, TagExifIFD, 4, 1, U32Bytes(be, total + 64))
              [] k = "orient8"  -> EntryBytes(be, TagOrientation, 3, 1, ShortValueBytes(be, 8))
              [] k = "orient1"  -> EntryBytes(be, TagOrientation, 3, 1, ShortValueBytes(be, 1))
              [] k = "stripOff" -> EntryBytes(be, TagStripOffsets, 4, 1, U32Bytes(be, jpegOff))
              [] k = "stripLen" -> EntryBytes(be, TagStripByteCounts, 4, 1,
                                              U32Bytes(be, Len(JpegData)))
              [] k = "xres"     -> EntryBytes(be, TagXResolution, 5, 1, U32Bytes(be, ratOff))
              [] k = "xresBad"  -> EntryBytes(be, TagXResolution, 5, 1,
                                              U32Bytes(be, total + 64))
              [] k = "jpegOff"  -> EntryBytes(be, TagJpegOffset, 4, 1, U32Bytes(be, jpegOff))
              [] k = "jpegLen"  -> EntryBytes(be, TagJpegLength, 4, 1,
                                              U32Bytes(be, Len(JpegData)))
        subEntry(k) ==
            CASE k = "jpegOff"  -> EntryBytes(be, TagJpegOffset, 4, 1, U32Bytes(be, jpegOff))
              [] k = "jpegLen"  -> EntryBytes(be, TagJpegLength, 4, 1,
                                              U32Bytes(be, Len(JpegData)))
              [] k = "jpegLen0" -> EntryBytes(be, TagJpegLength, 4, 1, U32Bytes(be, 0))
              [] k = "xres"     -> EntryBytes(be, TagXResolution, 5, 1, U32Bytes(be, ratOff))
              [] k = "xresBad"  -> EntryBytes(be, TagXResolution, 5, 1,
                                              U32Bytes(be, total + 64))
        exifEntry(i) ==
            EntryBytes(be, TagDateTimeDigitized, 2, 20,
                       U32Bytes(be, IF exif[i] = "unreadable" THEN total + 64
                                    ELSE datesOff + 20 * (i - 1)))
    IN  header
        \o U16Bytes(be, Len(root)) \o Flatten([i \in 1..Len(root) |-> rootEntry(root[i])])
        \o U32Bytes(be, subOff)
        \o U16Bytes(be, Len(sub)) \o Flatten([i \in 1..Len(sub) |-> subEntry(sub[i])])
        \o U16Bytes(be, Len(exif)) \o Flatten([i \in 1..Len(exif) |-> exifEntry(i)])
        \o Flatten([i \in 1..Len(exif) |-> DateBytes(exif[i])])
        \o U32Bytes(be, 7) \o U32Bytes(be, 2)
        \o JpegData

SeqsUpTo(S, n) == UNION {[1..k -> S] : k \in 0..n}

SubStandard == <<"jpegOff", "jpegLen">>
ExifStandard == <<"good">>

SubVariants == {<<>>, SubStandard, <<"jpegOff">>, <<"jpegOff", "jpegLen0">>,
                <<"xres", "jpegOff", "jpegLen">>, <<"xresBad", "jpegOff", "jpegLen">>}
ExifVariants == {<<>>, ExifStandard, <<"badMonth">>, <<"good", "badMonth">>,
                 <<"badMonth", "good2">>, <<"good", "good2">>, <<"unreadable">>,
                 <<"shortYear">>}

\* A NEF-like and a CR2-like directory with everything the parsers look for.
TypicalRoots == {<<"sub", "orient8", "exif">>,
                 <<"stripOff", "orient8", "stripLen", "exif">>}

WholeFiles ==
    {MkFile(be, root, SubStandard, ExifStandard) :
        be \in BOOLEAN, root \in SeqsUpTo(RootKinds, MaxRootEntries)}
    \cup {MkFile(be, root, sub, exif) :
        be \in BOOLEAN, root \in TypicalRoots, sub \in SubVariants, exif \in ExifVariants}

CutFiles ==
    UNION {{SubSeq(f, 1, k) : k \in 0..(Len(f) - 1)} :
           f \in {MkFile(be, root, SubStandard, ExifStandard) :
                    be \in BOOLEAN, root \in TypicalRoots \cup {<<>>}}}

\* Twelve-byte files: every pairing of a byte-order marker with the byte
\* order the magic and the root offset are actually written in.
Markers == {<<77, 77>>, <<73, 73>>, <<77, 73>>, <<73, 77>>, <<0, 0>>}
HeaderFiles ==
    {m \o U16Bytes(be, magic) \o U32Bytes(be, off) \o <<67, 82, 2, 0>> :
        m \in Markers, be \in BOOLEAN, magic \in {42, 43}, off \in {8, 16, 300}}

\* Hostile files: a root IFD at offset 16 whose pointers lead back into it.
\* "exifBack" is an EXIF pointer to the root IFD, "subBack" a SubIFD entry
\* whose stored offset is the root IFD's, "subSelf" a SubIFD entry whose
\* stored offset is the position of that very offset.  With huge set, the
\* entry count is written as 65535.
HostileKinds == {"exifBack", "subBack", "subSelf"}
HostileFile(be, root, huge) ==
    LET rootOff == 16
        ptrBack == rootOff + 2 + 12 * Len(root)
        ptrSelf == ptrBack + 4
        rootEntry(k) ==
            CASE k = "exifBack" -> EntryBytes(be, TagExifIFD, 4, 1, U32Bytes(be, rootOff))
              [] k = "subBack"  -> EntryBytes(be, TagSubIFDs, 4, 1, U32Bytes(be, ptrBack))
              [] k = "subSelf"  -> EntryBytes(be, TagSubIFDs, 4, 1, U32Bytes(be, ptrSelf))
    IN  (IF be THEN <<77, 77>> ELSE <<73, 73>>) \o U16Bytes(be, 42)
        \o U32Bytes(be, rootOff) \o <<67, 82, 2, 0>> \o U32Bytes(be, 0)
        \o (IF huge THEN <<255, 255>> ELSE U16Bytes(be, Len(root)))
        \o Flatten([i \in 1..Len(root) |-> rootEntry(root[i])])
        \o U32Bytes(be, rootOff) \o U32Bytes(be, ptrSelf)

HostileFiles ==
    {HostileFile(be, root, huge) :
        be \in BOOLEAN, huge \in BOOLEAN,
        root \in [{1} -> HostileKinds] \cup [{1, 2} -> HostileKinds]}

Files == WholeFiles \cup CutFiles \cup HeaderFiles \cup HostileFiles

\* "d/a.NEF", "o/"
SourcePath == <<100, 47, 97, 46, 78, 69, 70>>
DestDir == <<111, 47>>
RawFileInfo(File, destDir, Quality) == [File |-> File, DestDir |-> destDir, Quality |-> Quality]

--------------------------------------------------------------------------
(* ProcessFile of both parsers, step by step *)

ParserKinds == {"NEF", "CR2"}
Idle == [op |-> "idle"]

InitCall ==
    /\ parserKind \in ParserKinds
    /\ hostIsLE \in BOOLEAN
    /\ info = RawFileInfo(SourcePath, DestDir, 50)
    /\ fileExists \in BOOLEAN
    /\ file \in Files
    /\ (~fileExists => file = <<>>)
    /\ pc = "start"
    /\ hdr = NefHeader(FALSE, 0, 0)
    /\ hdrErr = NoErr
    /\ ifds = IfdsResult(JpegInfo0, ZeroTime, NoErr, FALSE, 0, 0)
    /\ raw = RawFile0
    /\ retErr = NoErr
    /\ openHandles = 0
    /\ headerReads = 0
    /\ codecCalls = <<>>

Init ==
    /\ InitCall
    /\ NoWorkers
    /\ NoRegistry
    /\ cv = Idle
    /\ dt = Idle

\* A plausible slip: the failed open is logged and the parse goes on.
OpenFile_goesOn ==
    /\ pc = "start"
    /\ pc' = "opened"
    /\ retErr' = IF fileExists THEN retErr ELSE ErrOpen
    /\ openHandles' = IF fileExists THEN openHandles + 1 ELSE openHandles
    /\ raw' = RawFile0
    /\ UNCHANGED <<parserKind, hostIsLE, info, fileExists, file, hdr, hdrErr, ifds,
                   headerReads, codecCalls, cv, dt, workerVars, regVars>>

\* nef = new(RawFile); f, err := os.Open(info.File): err is the function's
\* result.  A failed open returns (nef, err) at once.
OpenFile ==
    /\ pc = "start"
    /\ IF fileExists
       THEN /\ pc' = "opened"
            /\ openHandles' = openHandles + 1
            /\ UNCHANGED retErr
       ELSE /\ pc' = "done"
            /\ retErr' = ErrOpen
            /\ UNCHANGED openHandles
    /\ raw' = RawFile0
    /\ UNCHANGED <<parserKind, hostIsLE, info, fileExists, file, hdr, hdrErr, ifds,
                   headerReads, codecCalls, cv, dt, workerVars, regVars>>

\* NEF: h, err := n.processHeader(f)   CR2: h, _ := n.processHeader(f)
ProcessHeader ==
    /\ pc = "opened"
    /\ LET r == IF parserKind = "NEF" THEN NefProcessHeader(hostIsLE, file)
                ELSE Cr2ProcessHeader(hostIsLE, file)
       IN  /\ hdr' = r.h
           /\ hdrErr' = r.err
    /\ headerReads' = headerReads + 1
    /\ pc' = "header"
    /\ UNCHANGED <<parserKind, hostIsLE, info, fileExists, file, ifds, raw, retErr,
                   openHandles, codecCalls, cv, dt, workerVars, regVars>>

\* jpegInfo, createDate, err := n.processIfds(f, h): called whatever
\* processHeader returned, with the header as far as it was filled.
ProcessIfds ==
    /\ pc = "header"
    /\ \E r \in {IF parserKind = "NEF" THEN NefProcessIfds(hostIsLE, hdr, file)
                 ELSE Cr2ProcessIfds(hostIsLE, hdr, file)} :
           /\ ifds' = r
           /\ pc' = IF r.panic THEN "panic" ELSE "ifds"
    /\ UNCHANGED <<parserKind, hostIsLE, info, fileExists, file, hdr, hdrErr, raw, retErr,
                   openHandles, headerReads, codecCalls, cv, dt, workerVars, regVars>>

\* Whether ProcessFile goes on to decodeAndWriteJpeg after processIfds.
\* NEF: neither err != nil nor jpegInfo.length <= 0.   CR2: err == nil.
ExtractsOf(kind, r) ==
    IF kind = "NEF" THEN r.err = NoErr /\ r.jpeg.length > 0
    ELSE r.err = NoErr

Extracts == ExtractsOf(parserKind, ifds)

\* The error ProcessFile returns when it does not go on.
\* NEF: return nef, err (the err of processIfds) or the invalid-length error.
\* CR2: falls out of the else block to return CR2, err, where err is the
\* function's result, which os.Open set to nil: the err of processIfds is a
\* variable of the else block.
ErrAfterIfdsOf(kind, r) ==
    IF kind = "NEF"
    THEN (IF r.err # NoErr THEN r.err ELSE ErrInvalidJpegLength)
    ELSE NoErr

ErrAfterIfds == ErrAfterIfdsOf(parserKind, ifds)

ReturnAfterIfds ==
    /\ pc = "ifds"
    /\ ~Extracts
    /\ retErr' = ErrAfterIfds
    /\ pc' = "done"
    /\ UNCHANGED <<parserKind, hostIsLE, info, fileExists, file, hdr, hdrErr, ifds, raw,
                   openHandles, headerReads, codecCalls, cv, dt, workerVars, regVars>>

\* What decodeAndWriteJpeg(data, quality, filename) of the build can do with
\* data: an empty buffer is no JPEG (the Go codec fails to decode it, the
\* turbojpeg build panics on &data[0]); whether any other buffer decodes and
\* the output file can be written is the codec's and the file system's.
CodecOutcomes(data) == IF data = <<>> THEN {"error", "panic"} ELSE {"ok", "error"}

\* The error ProcessFile returns after decodeAndWriteJpeg: in both parsers
\* the err of decodeAndWriteJpeg is a variable of an inner block, and the
\* final return gives the function's result err, nil since os.Open.
ErrAfterJpeg(jpegErr) == NoErr

\* n.decodeAndWriteJpeg(f, jpegInfo, info.DestDir, info.Quality) and the rest
\* of ProcessFile.
DecodeAndWriteJpeg ==
    /\ pc = "ifds"
    /\ Extracts
    /\ LET j == ifds.jpeg
           jpegFileName == genExtractedJpegName(info.File, info.DestDir, ExtractedSuffix)
           short == BytesRead(j.offset, j.length, file) < j.length
       IN  IF short
           THEN \* f.ReadAt(data, j.offset) returned an error
                /\ codecCalls' = codecCalls
                /\ raw' = raw
                /\ retErr' = ErrAfterJpeg(ErrEOF)
                /\ pc' = "done"
           ELSE \E outcome \in CodecOutcomes(ReadBytes(j.offset, j.length, file)) :
                /\ codecCalls' = Append(codecCalls,
                                        [data |-> ReadBytes(j.offset, j.length, file),
                                         quality |-> info.Quality,
                                         filename |-> jpegFileName])
                /\ raw' = IF outcome = "ok"
                          THEN RawFile(ifds.cDate, info.File, jpegFileName, j.orientation)
                          ELSE raw
                /\ retErr' = IF outcome = "panic" THEN retErr
                             ELSE ErrAfterJpeg(IF outcome = "ok" THEN NoErr ELSE ErrCodec)
                /\ pc' = IF outcome = "panic" THEN "panic" ELSE "done"
    /\ UNCHANGED <<parserKind, hostIsLE, info, fileExists, file, hdr, hdrErr, ifds,
                   openHandles, headerReads, cv, dt, workerVars, regVars>>

Next ==
    \/ OpenFile
    \/ ProcessHeader
    \/ ProcessIfds
    \/ ReturnAfterIfds
    \/ DecodeAndWriteJpeg

Spec == Init /\ [][Next]_vars

--------------------------------------------------------------------------
(* The conversion functions on their own: bytesToUShort and bytesToUInt      *)
(* applied to four bytes drawn from SampleBytes under every pair of flags.   *)

SampleBytes == {0, 1, 42, 77, 170, 187, 204, 221, 255}

\* The call variables while no ProcessFile call is modelled.
NoCall ==
    /\ parserKind = "NEF"
    /\ hostIsLE = TRUE
    /\ info = RawFileInfo(<<>>, <<>>, 0)
    /\ fileExists = FALSE
    /\ file = <<>>
    /\ pc = "none"
    /\ hdr = NefHeader(FALSE, 0, 0)
    /\ hdrErr = NoErr
    /\ ifds = IfdsResult(JpegInfo0, ZeroTime, NoErr, FALSE, 0, 0)
    /\ raw = RawFile0
    /\ retErr = NoErr
    /\ openHandles = 0
    /\ headerReads = 0
    /\ codecCalls = <<>>

InitConv ==
    /\ NoCall
    /\ NoWorkers
    /\ NoRegistry
    /\ dt = Idle
    /\ \E h \in BOOLEAN, b \in BOOLEAN, buf \in [1..4 -> SampleBytes] :
          cv = [op |-> "input", isHostLittleEndian |-> h, isBigEndian |-> b, buf |-> buf]

CallBytesToUShort ==
    /\ cv.op = "input"
    /\ cv' = [op |-> "bytesToUShort", isHostLittleEndian |-> cv.isHostLittleEndian,
              isBigEndian |-> cv.isBigEndian, buf |-> cv.buf,
              out |-> bytesToUShort(cv.isHostLittleEndian, cv.isBigEndian,
                                    SubSeq(cv.buf, 1, 2))]
    /\ UNCHANGED <<callVars, dt, workerVars, regVars>>

CallBytesToUInt ==
    /\ cv.op = "input"
    /\ cv' = [op |-> "bytesToUInt", isHostLittleEndian |-> cv.isHostLittleEndian,
              isBigEndian |-> cv.isBigEndian, buf |-> cv.buf,
              out |-> bytesToUInt(cv.isHostLittleEndian, cv.isBigEndian, cv.buf)]
    /\ UNCHANGED <<callVars, dt, workerVars, regVars>>

NextConv ==
    \/ CallBytesToUShort
    \/ CallBytesToUInt

SpecConv == InitConv /\ [][NextConv]_vars

--------------------------------------------------------------------------
(* parseDateTime on its own, applied to two strings "YYYY:MM:DD HH:MM:SS"    *)
(* that differ at most in the seconds token.                                 *)

Digits2(n) == <<Ch0 + (n \div 10), Ch0 + (n % 10)>>
Digits4(n) == Digits2(n \div 100) \o Digits2(n % 100)

DateString(y, mo, d, h, mi, sec) ==
    Digits4(y) \o <<ChColon>> \o Digits2(mo) \o <<ChColon>> \o Digits2(d) \o <<ChSpace>>
    \o Digits2(h) \o <<ChColon>> \o Digits2(mi) \o <<ChColon>> \o Digits2(sec)

SampleYears == {1900, 1968, 1969, 1999, 2000, 2010, 2068, 2069}
SampleDays == {1, 28, 29, 30, 31}
SampleHours == {0, 12, 23}
SampleMinutes == {0, 11, 59}
SampleSeconds == {0, 7, 59}

InitDate ==
    /\ NoCall
    /\ NoWorkers
    /\ NoRegistry
    /\ cv = Idle
    /\ \E y \in SampleYears, mo \in 1..12, d \in SampleDays, h \in SampleHours,
          mi \in SampleMinutes, s1 \in SampleSeconds, s2 \in SampleSeconds :
          dt = [op |-> "input",
                year |-> y, month |-> mo, day |-> d, hour |-> h, min |-> mi,
                s |-> DateString(y, mo, d, h, mi, s1),
                s2 |-> DateString(y, mo, d, h, mi, s2)]

CallParseDateTime ==
    /\ dt.op = "input"
    /\ dt' = [op |-> "parseDateTime",
              year |-> dt.year, month |-> dt.month, day |-> dt.day, hour |-> dt.hour,
              min |-> dt.min, s |-> dt.s, s2 |-> dt.s2,
              out |-> parseDateTime(dt.s), out2 |-> parseDateTime(dt.s2)]
    /\ UNCHANGED <<callVars, cv, workerVars, regVars>>

NextDate == CallParseDateTime

SpecDate == InitDate /\ [][NextDate]_vars

--------------------------------------------------------------------------
(* Properties of ProcessFile (specification Spec) *)

Returned == pc = "done"
AfterHeader == pc \in {"header", "ifds", "done", "panic"}
AfterIfds == pc \in {"ifds", "done", "panic"}

DerivedJpegPath == info.DestDir \o FilepathBase(info.File) \o ExtractedSuffix

\* C1: in both parsers ProcessFile returns a nil error only together with a
\* populated result (FileName the input path, JpegPath the non-empty derived
\* output path); every failure after the open returns a non-nil error.
C1_NilErrorOnlyWithResult ==
    (Returned /\ retErr = NoErr) =>
        /\ raw.FileName = info.File
        /\ raw.JpegPath = DerivedJpegPath
        /\ raw.JpegPath # <<>>

\* C2: in both parsers a short read in processHeader aborts ProcessFile, which
\* returns that error; no IFD is decoded and the codec is not invoked.
C2_HeaderErrorAborts ==
    (AfterHeader /\ hdrErr # NoErr) =>
        /\ pc \notin {"ifds", "panic"}
        /\ ifds.decodes = 0
        /\ codecCalls = <<>>
        /\ (Returned => retErr = hdrErr)

\* C3: CR2: when the JPEG byte length is 0 after tag interpretation (header
\* and IFDs read without error), ProcessFile fails with an error and the codec
\* is never invoked.
C3_Cr2ZeroLengthFails ==
    (parserKind = "CR2" /\ Returned /\ hdrErr = NoErr /\ ifds.err = NoErr
        /\ ifds.jpeg.length = 0) =>
        /\ codecCalls = <<>>
        /\ retErr # NoErr

\* The root directory as the call decodes it, and the SubIFD a root entry of
\* tag 0x014A leads to (empty when the pointer cannot be read).
RootDirectory == processIfd(hostIsLE, hdr.isBigEndian, hdr.tiffOffset, file)
SubDirectoryOf(entry) ==
    LET ptrF == readField(U32ToInt(entry.valueOffset), 4, file)
    IN  IF ptrF.err # NoErr THEN <<>>
        ELSE processIfd(hostIsLE, hdr.isBigEndian,
                        U32ToInt(bytesToUInt(hostIsLE, hdr.isBigEndian, ptrF.bytes)),
                        file).l

\* No SubIFD JPEG length: no root entry 0x014A, or no 0x0202 entry under it,
\* or only 0x0202 entries of value 0.
NoSubIfdJpegLength ==
    \A i \in 1..Len(RootDirectory.l) :
        RootDirectory.l[i].tag = TagSubIFDs =>
            LET sub == SubDirectoryOf(RootDirectory.l[i])
            IN  \A k \in 1..Len(sub) :
                    sub[k].tag = TagJpegLength => sub[k].valueOffset = U32Zero

\* C4: NEF: a file with no SubIFD JPEG length makes ProcessFile return a
\* non-nil error, and the codec is never invoked.
C4_NefNoJpegLengthFails ==
    (parserKind = "NEF" /\ AfterIfds /\ NoSubIfdJpegLength) =>
        /\ codecCalls = <<>>
        /\ pc # "panic"
        /\ (Returned => retErr # NoErr)

\* C5: in both parsers, when the source path cannot be opened ProcessFile
\* returns a non-nil error at once: no header read, no IFD decode, no codec call.
C5_OpenFailureReturnsAtOnce ==
    (~fileExists /\ pc # "start") =>
        /\ Returned
        /\ retErr # NoErr
        /\ headerReads = 0
        /\ ifds.decodes = 0
        /\ codecCalls = <<>>
        /\ openHandles = 0

C5_Witness == ~fileExists /\ Returned /\ retErr = ErrOpen

\* The bytes of the header, combined in the byte order the marker announces.
MarkerIsMM == file[1] = 77 /\ file[2] = 77
ExpectedMagic ==
    IF MarkerIsMM THEN file[3] * TwoTo8 + file[4] ELSE file[4] * TwoTo8 + file[3]
ExpectedRootOffset ==
    IF MarkerIsMM
    THEN ((file[5] * TwoTo8 + file[6]) * TwoTo8 + file[7]) * TwoTo8 + file[8]
    ELSE ((file[8] * TwoTo8 + file[7]) * TwoTo8 + file[6]) * TwoTo8 + file[5]

\* C8: with the host flag little-endian, processHeader of either parser sets
\* isBigEndian iff the first two bytes are 0x4D 0x4D, and decodes the magic
\* (bytes 2-3) and the root IFD offset (bytes 4-7) in that byte order.
C8_HeaderDecodedInFileOrder ==
    (AfterHeader /\ hostIsLE) =>
        /\ (Len(file) >= 2 => (hdr.isBigEndian <=> MarkerIsMM))
        /\ (Len(file) >= 4 => hdr.tiffMagicValue = ExpectedMagic)
        /\ (Len(file) >= 8 => hdr.tiffOffset = ExpectedRootOffset)

C8_Witness ==
    /\ pc = "header" /\ hostIsLE /\ parserKind = "NEF" /\ hdrErr = NoErr
    /\ hdr = NefHeader(TRUE, 42, 8)

\* The orientation entries among the root entries interpreted to the end.
OrientationEntries ==
    {i \in 1..ifds.walked : RootDirectory.l[i].tag = TagOrientation}
LastOrientationShort ==
    LET last == CHOOSE i \in OrientationEntries : \A k \in OrientationEntries : k <= i
        v == RootDirectory.l[last].valueOffset
    IN  IF hdr.isBigEndian THEN v.hi ELSE v.lo

\* C9: in both parsers the orientation is 270*pi/180 iff the short taken from
\* the value field of the root orientation entry (high 16 bits if the file is
\* big-endian, low 16 bits otherwise) is 8, and 0.0 otherwise; 0.0 with no
\* orientation entry.
C9_OrientationMapping ==
    AfterIfds =>
        IF OrientationEntries = {} THEN ifds.jpeg.orientation = 0
        ELSE /\ (LastOrientationShort = 8 => ifds.jpeg.orientation = Rotate270Degrees)
             /\ (LastOrientationShort # 8 => ifds.jpeg.orientation = 0)

C9_Witness ==
    /\ pc = "ifds" /\ hdr.isBigEndian /\ OrientationEntries # {}
    /\ LastOrientationShort = 8
    /\ ifds.jpeg.orientation = Rotate270Degrees

--------------------------------------------------------------------------
(* Properties of the conversion functions (specification SpecConv) *)

\* The two bytes as the host holds them natively, and byte-swapped.
NativeUShort(isHostLittleEndian, buf) ==
    IF isHostLittleEndian THEN buf[2] * TwoTo8 + buf[1] ELSE buf[1] * TwoTo8 + buf[2]
SwappedUShort(v) == (v % TwoTo8) * TwoTo8 + (v \div TwoTo8)

\* C6: for every 2-byte input and all four pairs of flags, bytesToUShort
\* returns the byte-swapped value iff host and file byte order differ, and the
\* value in the host's native order otherwise.
C6_UShortSwappedIffOrdersDiffer ==
    cv.op = "bytesToUShort" =>
        LET native == NativeUShort(cv.isHostLittleEndian, cv.buf)
            differ == (cv.isHostLittleEndian = cv.isBigEndian)
        IN  cv.out = IF differ THEN SwappedUShort(native) ELSE native

\* C7: with the host flag little-endian, bytesToUInt of b0..b3 is
\* b3<<24|b2<<16|b1<<8|b0 for a little-endian file and
\* b0<<24|b1<<16|b2<<8|b3 for a big-endian file.
C7_UIntHostLittleEndian ==
    (cv.op = "bytesToUInt" /\ cv.isHostLittleEndian) =>
        LET b == cv.buf
        IN  cv.out = IF cv.isBigEndian
                     THEN U32(b[1] * TwoTo8 + b[2], b[3] * TwoTo8 + b[4])
                     ELSE U32(b[4] * TwoTo8 + b[3], b[2] * TwoTo8 + b[1])

C7_Witness ==
    /\ cv.op = "bytesToUInt" /\ cv.isHostLittleEndian /\ cv.isBigEndian
    /\ cv.buf = <<221, 204, 187, 170>>
    /\ cv.out = U32(221 * TwoTo8 + 204, 187 * TwoTo8 + 170)

--------------------------------------------------------------------------
(* Properties of parseDateTime (specification SpecDate) *)

ValidDate(y, mo, d) == d >= 1 /\ d <= DaysIn(mo, y)

\* C10: for every well-formed "YYYY:MM:DD HH:MM:SS" with a valid date and
\* time, parseDateTime returns without error the timestamp of that year,
\* month, day, hour and minute with second 0; two inputs that differ only in
\* the seconds token give equal timestamps.
C10_ParseKeepsDateToTheMinute ==
    (dt.op = "parseDateTime" /\ ValidDate(dt.year, dt.month, dt.day)) =>
        /\ ~dt.out.panic
        /\ dt.out.err = NoErr
        /\ dt.out.t = Time(dt.year, dt.month, dt.day, dt.hour, dt.min, 0)
        /\ dt.out2.t = dt.out.t

--------------------------------------------------------------------------
(* parseDateTime applied to malformed strings (specification SpecMalformed). *)
(* A string is put together from year, month, day, hour, minute and second   *)
(* tokens, a number of date and of time sub-tokens, and a spacing.           *)

RECURSIVE JoinColon(_)
JoinColon(tokens) ==
    IF Len(tokens) = 0 THEN <<>>
    ELSE IF Len(tokens) = 1 THEN tokens[1]
    ELSE tokens[1] \o <<ChColon>> \o JoinColon(Tail(tokens))

\* "2010", "1999", "20", "201", ""
YearTokens == {<<50, 48, 49, 48>>, <<49, 57, 57, 57>>, <<50, 48>>, <<50, 48, 49>>, <<>>}
\* "08", "12" and the month tokens outside "01".."12": "", "00", "13", "-1", "aa", "1"
GoodMonthTokens == {<<48, 56>>, <<49, 50>>}
BadMonthTokens ==
    {<<>>, <<48, 48>>, <<49, 51>>, <<45, 49>>, <<97, 97>>, <<49>>}
DayToken == <<49, 48>>
\* "12", "7" and the non-numeric "ab", "1a", "+1", ""
GoodHourTokens == {<<49, 50>>, <<55>>}
BadHourTokens == {<<97, 98>>, <<49, 97>>, <<43, 49>>, <<>>}
\* "11" and the non-numeric "xy", "5x", "-5", ""
GoodMinuteTokens == {<<49, 49>>}
BadMinuteTokens == {<<120, 121>>, <<53, 120>>, <<45, 53>>, <<>>}
SecondToken == <<48, 55>>

\* The number of ':'-separated sub-tokens of the date and of the time token.
TokenCounts == {2, 3, 4}
\* How the date and the time token are put together: one space (two tokens),
\* no space (one token), two spaces or a trailing word (three tokens), or
\* nothing at all (the empty string).
Spacings == {"one", "none", "two", "trailing", "empty"}

DateTokenOf(y, mo, d, n) == JoinColon(SubSeq(<<y, mo, d, d>>, 1, n))
TimeTokenOf(h, mi, sec, n) == JoinColon(SubSeq(<<h, mi, sec, sec>>, 1, n))

Spaced(dateToken, timeToken, spacing) ==
    CASE spacing = "one" -> dateToken \o <<ChSpace>> \o timeToken
      [] spacing = "none" -> dateToken \o timeToken
      [] spacing = "two" -> dateToken \o <<ChSpace, ChSpace>> \o timeToken
      [] spacing = "trailing" -> dateToken \o <<ChSpace>> \o timeToken \o <<ChSpace, 120>>
      [] OTHER -> <<>>

\* The ways the claim calls a string malformed.
WrongSpacing(in) == in.spacing # "one"
WrongTokenCount(in) == in.nDate # 3 \/ in.nTime # 3
WrongMonth(in) == in.month \in BadMonthTokens
WrongHourOrMinute(in) == in.hour \in BadHourTokens \/ in.min \in BadMinuteTokens
Malformed(in) ==
    WrongSpacing(in) \/ WrongTokenCount(in) \/ WrongMonth(in) \/ WrongHourOrMinute(in)

InitMalformed ==
    /\ NoCall
    /\ NoWorkers
    /\ NoRegistry
    /\ cv = Idle
    /\ \E y \in YearTokens, mo \in GoodMonthTokens \cup BadMonthTokens,
          h \in GoodHourTokens \cup BadHourTokens,
          mi \in GoodMinuteTokens \cup BadMinuteTokens,
          nd \in TokenCounts, nt \in TokenCounts, sp \in Spacings :
          /\ dt = [op |-> "malformed", year |-> y, month |-> mo, hour |-> h, min |-> mi,
                   nDate |-> nd, nTime |-> nt, spacing |-> sp,
                   s |-> Spaced(DateTokenOf(y, mo, DayToken, nd),
                                TimeTokenOf(h, mi, SecondToken, nt), sp)]
          /\ Malformed(dt)

CallParseMalformed ==
    /\ dt.op = "malformed"
    /\ dt' = [dt EXCEPT !.op = "parsedMalformed"] @@ [out |-> parseDateTime(dt.s)]
    /\ UNCHANGED <<callVars, cv, workerVars, regVars>>

NextMalformed == CallParseMalformed

SpecMalformed == InitMalformed /\ [][NextMalformed]_vars

\* C11: parseDateTime returns a non-nil error for every malformed input: not
\* exactly two space-separated tokens, a date or time token without exactly
\* three ':'-separated sub-tokens, a month token outside "01".."12", or a
\* non-numeric hour or minute token.
C11_MalformedInputFails ==
    dt.op = "parsedMalformed" =>
        /\ ~dt.out.panic
        /\ dt.out.err # NoErr

--------------------------------------------------------------------------
(* toRfc822Date on its own (specification SpecMonth): the month token is any *)
(* string of up to two characters of a small alphabet, or one of a few       *)
(* longer strings.                                                           *)

\* '0'..'9', '-', 'a'
MonthChars == (Ch0..Ch9) \cup {ChMinus, 97}
\* "001", "010", "Jan", "12 "
LongMonthTokens == {<<48, 48, 49>>, <<48, 49, 48>>, <<74, 97, 110>>, <<49, 50, 32>>}
MonthTokenInputs ==
    {<<>>} \cup {<<a>> : a \in MonthChars}
           \cup {<<a, b>> : a \in MonthChars, b \in MonthChars}
           \cup LongMonthTokens

InitMonth ==
    /\ NoCall
    /\ NoWorkers
    /\ NoRegistry
    /\ cv = Idle
    /\ \E y \in YearTokens, token \in MonthTokenInputs :
          dt = [op |-> "month", dateTokens |-> <<y, token, DayToken>>]

CallToRfc822Date ==
    /\ dt.op = "month"
    /\ dt' = [op |-> "toRfc822Date", dateTokens |-> dt.dateTokens,
              out |-> toRfc822Date(dt.dateTokens)]
    /\ UNCHANGED <<callVars, cv, workerVars, regVars>>

NextMonth == CallToRfc822Date

SpecMonth == InitMonth /\ [][NextMonth]_vars

\* The twelve abbreviations in calendar order, and the number a two-digit
\* token stands for (0 for everything else).
AbbrevsInOrder ==
    << 74, 97, 110,  70, 101, 98,  77, 97, 114,  65, 112, 114,
       77, 97, 121,  74, 117, 110,  74, 117, 108,  65, 117, 103,
       83, 101, 112,  79, 99, 116,  78, 111, 118,  68, 101, 99 >>
TwoDigitValue(token) ==
    IF Len(token) = 2 /\ token[1] \in Ch0..Ch9 /\ token[2] \in Ch0..Ch9
    THEN (token[1] - Ch0) * 10 + (token[2] - Ch0)
    ELSE 0

\* C12: toRfc822Date maps the month tokens "01".."12" to "Jan".."Dec" in
\* that order with a nil error, and returns a non-nil error for every other
\* month token.
C12_MonthTable ==
    dt.op = "toRfc822Date" =>
        LET n == TwoDigitValue(dt.dateTokens[2])
        IN  IF n \in 1..12
            THEN /\ dt.out.e = NoErr
                 /\ dt.out.monthStr = SubSeq(AbbrevsInOrder, 3 * n - 2, 3 * n)
            ELSE dt.out.e # NoErr

C12_Witness ==
    /\ dt.op = "toRfc822Date"
    /\ dt.dateTokens[2] = <<48, 57>>
    /\ dt.out.e = NoErr
    /\ dt.out.monthStr = <<83, 101, 112>>

C12_WitnessRejected ==
    /\ dt.op = "toRfc822Date"
    /\ dt.dateTokens[2] = <<49>>
    /\ dt.out.e # NoErr

--------------------------------------------------------------------------
(* ProcessFile calls of two workers on parser objects (specification         *)
(* SpecWorkers).  A parser object holds the HostIsLittleEndian flag.  The    *)
(* methods of NefParser other than SetHostIsLittleEndian have a value        *)
(* receiver: a call of ProcessFile copies the struct, flag included, and     *)
(* every later n.IsHostLittleEndian() reads the copy.  Cr2Parser embeds      *)
(* *rawParser: its copy shares the flag, read as n.HostIsLittleEndian at     *)
(* every use.                                                                *)

MaxSets == 1            \* calls of SetHostIsLittleEndian in one run
WorkerIds == {1, 2}
InstanceIds == {1, 2}

\* A file with a big-endian header whose directories are written
\* little-endian: "MM", 42, root offset 16, then the body of a CR2-like
\* little-endian file.
MixedHeader == <<77, 77, 0, 42, 0, 0, 0, 16>>
MixedFile ==
    MixedHeader
    \o Drop(MkFile(FALSE, <<"stripOff", "orient8", "stripLen">>, SubStandard, ExifStandard), 8)

WorkerFiles ==
    {MkFile(TRUE, <<"sub", "orient8", "exif">>, SubStandard, ExifStandard),
     MkFile(TRUE, <<"stripOff", "orient8", "stripLen", "exif">>, SubStandard, ExifStandard),
     MixedFile}

\* "e/a.NEF", "d/b.NEF"
SourcePathOtherDir == <<101, 47, 97, 46, 78, 69, 70>>
SourcePathOtherName == <<100, 47, 98, 46, 78, 69, 70>>

ProcessHeaderOf(kind, flag, f) ==
    IF kind = "NEF" THEN NefProcessHeader(flag, f) ELSE Cr2ProcessHeader(flag, f)
ProcessIfdsOf(kind, flag, h, f) ==
    IF kind = "NEF" THEN NefProcessIfds(flag, h, f) ELSE Cr2ProcessIfds(flag, h, f)

\* decodeAndWriteJpeg and the rest of ProcessFile: the ways the call can end,
\* each with the output file it wrote.
JpegEndings(fileInfo, r, f) ==
    LET j == r.jpeg
        jpegFileName == genExtractedJpegName(fileInfo.File, fileInfo.DestDir, ExtractedSuffix)
        data == ReadBytes(j.offset, j.length, f)
    IN  IF BytesRead(j.offset, j.length, f) < j.length
        THEN {[raw |-> RawFile0, retErr |-> ErrAfterJpeg(ErrEOF), pc |-> "done", wrote |-> {}]}
        ELSE {[raw |-> IF outcome = "ok"
                       THEN RawFile(r.cDate, fileInfo.File, jpegFileName, j.orientation)
                       ELSE RawFile0,
               retErr |-> IF outcome = "panic" THEN NoErr
                          ELSE ErrAfterJpeg(IF outcome = "ok" THEN NoErr ELSE ErrCodec),
               pc |-> IF outcome = "panic" THEN "panic" ELSE "done",
               wrote |-> IF outcome = "ok"
                         THEN {[path |-> jpegFileName, data |-> data,
                                quality |-> fileInfo.Quality]}
                         ELSE {}] : outcome \in CodecOutcomes(data)}

\* Plausible variants: the flag kept in one place for every parser object,
\* and a NefParser whose ProcessFile has a pointer receiver.
FlagSeen_global(w) == instances[1].flag
FlagSeen_shared(w) == instances[workers[w].inst].flag

\* The flag a step of worker w's call reads.
FlagSeen(w) ==
    IF instances[workers[w].inst].kind = "NEF" THEN workers[w].n
    ELSE instances[workers[w].inst].flag

KindOf(w) == instances[workers[w].inst].kind

Worker0(inst, fileInfo, exists, f) ==
    [pc |-> "idle", inst |-> inst, n |-> FALSE, info |-> fileInfo, exists |-> exists,
     file |-> f, hdr |-> NefHeader(FALSE, 0, 0), hdrErr |-> NoErr,
     hdrFlag |-> FALSE, hdrShared |-> FALSE,
     ifds |-> IfdsResult(JpegInfo0, ZeroTime, NoErr, FALSE, 0, 0),
     ifdsFlag |-> FALSE, ifdsShared |-> FALSE,
     raw |-> RawFile0, retErr |-> NoErr]

InitWorkers ==
    /\ NoCall
    /\ cv = Idle /\ dt = Idle
    /\ NoRegistry
    /\ instances \in [InstanceIds -> [kind : ParserKinds, flag : BOOLEAN]]
    /\ \E inst2 \in InstanceIds, f1 \in WorkerFiles, f2 \in WorkerFiles,
          e1 \in {TRUE}, e2 \in BOOLEAN,
          p2 \in {SourcePathOtherDir, SourcePathOtherName} :
          \* a parser object no worker uses is left out of the count
          /\ (inst2 = 1 => instances[2] = instances[1])
          /\ workers = [w \in WorkerIds |->
                        IF w = 1
                        THEN Worker0(1, RawFileInfo(SourcePath, DestDir, 50), e1,
                                     IF e1 THEN f1 ELSE <<>>)
                        ELSE Worker0(inst2, RawFileInfo(p2, DestDir, 50), e2,
                                     IF e2 THEN f2 ELSE <<>>)]
    /\ disk = {}
    /\ setCalls = 0

\* The call p.ProcessFile(info) itself: the receiver is copied.
CallProcessFile(w) ==
    /\ workers[w].pc = "idle"
    /\ workers' = [workers EXCEPT ![w].pc = "start",
                                  ![w].n = instances[workers[w].inst].flag]
    /\ UNCHANGED <<callVars, cv, dt, instances, disk, setCalls, regVars>>

WorkerOpenFile(w) ==
    /\ workers[w].pc = "start"
    /\ workers' = IF workers[w].exists
                  THEN [workers EXCEPT ![w].pc = "opened"]
                  ELSE [workers EXCEPT ![w].pc = "done", ![w].retErr = ErrOpen]
    /\ UNCHANGED <<callVars, cv, dt, instances, disk, setCalls, regVars>>

WorkerProcessHeader(w) ==
    /\ workers[w].pc = "opened"
    /\ LET r == ProcessHeaderOf(KindOf(w), FlagSeen(w), workers[w].file)
       IN  workers' = [workers EXCEPT ![w].pc = "header",
                                      ![w].hdr = r.h,
                                      ![w].hdrErr = r.err,
                                      ![w].hdrFlag = FlagSeen(w),
                                      ![w].hdrShared = instances[workers[w].inst].flag]
    /\ UNCHANGED <<callVars, cv, dt, instances, disk, setCalls, regVars>>

WorkerProcessIfds(w) ==
    /\ workers[w].pc = "header"
    /\ \E r \in {ProcessIfdsOf(KindOf(w), FlagSeen(w), workers[w].hdr, workers[w].file)} :
           workers' = [workers EXCEPT ![w].pc = IF r.panic THEN "panic" ELSE "ifds",
                                      ![w].ifds = r,
                                      ![w].ifdsFlag = FlagSeen(w),
                                      ![w].ifdsShared = instances[workers[w].inst].flag]
    /\ UNCHANGED <<callVars, cv, dt, instances, disk, setCalls, regVars>>

WorkerReturnAfterIfds(w) ==
    /\ workers[w].pc = "ifds"
    /\ ~ExtractsOf(KindOf(w), workers[w].ifds)
    /\ workers' = [workers EXCEPT ![w].pc = "done",
                                  ![w].retErr = ErrAfterIfdsOf(KindOf(w), workers[w].ifds)]
    /\ UNCHANGED <<callVars, cv, dt, instances, disk, setCalls, regVars>>

WorkerDecodeAndWriteJpeg(w) ==
    /\ workers[w].pc = "ifds"
    /\ ExtractsOf(KindOf(w), workers[w].ifds)
    /\ \E e \in JpegEndings(workers[w].info, workers[w].ifds, workers[w].file) :
          /\ workers' = [workers EXCEPT ![w].pc = e.pc, ![w].raw = e.raw,
                                        ![w].retErr = e.retErr]
          /\ disk' = {d \in disk : \A x \in e.wrote : d.path # x.path} \cup e.wrote
    /\ UNCHANGED <<callVars, cv, dt, instances, setCalls, regVars>>

\* func (n *NefParser) SetHostIsLittleEndian(hostIsLe bool)
SetHostIsLittleEndian(i, hostIsLe) ==
    /\ instances[i].kind = "NEF"
    /\ setCalls < MaxSets
    /\ instances' = [instances EXCEPT ![i].flag = hostIsLe]
    /\ setCalls' = setCalls + 1
    /\ UNCHANGED <<callVars, cv, dt, workers, disk, regVars>>

\* The SetHostIsLittleEndian a Cr2Parser has from the *rawParser it embeds:
\* it sets the HostIsLittleEndian field the parser's methods read.
RawParserSetHostIsLittleEndian(i, hostIsLe) ==
    /\ instances[i].kind = "CR2"
    /\ setCalls < MaxSets
    /\ instances' = [instances EXCEPT ![i].flag = hostIsLe]
    /\ setCalls' = setCalls + 1
    /\ UNCHANGED <<callVars, cv, dt, workers, disk, regVars>>

NextWorkers ==
    \/ \E w \in WorkerIds : CallProcessFile(w)
    \/ \E w \in WorkerIds : WorkerOpenFile(w)
    \/ \E w \in WorkerIds : WorkerProcessHeader(w)
    \/ \E w \in WorkerIds : WorkerProcessIfds(w)
    \/ \E w \in WorkerIds : WorkerReturnAfterIfds(w)
    \/ \E w \in WorkerIds : WorkerDecodeAndWriteJpeg(w)
    \/ \E i \in InstanceIds, b \in BOOLEAN : SetHostIsLittleEndian(i, b)
    \/ \E i \in InstanceIds, b \in BOOLEAN : RawParserSetHostIsLittleEndian(i, b)

SpecWorkers == InitWorkers /\ [][NextWorkers]_vars

\* The ways ProcessFile can end when it runs alone on a parser of the given
\* kind whose flag stays at the given value.
AloneEndings(kind, flag, fileInfo, exists, f) ==
    IF ~exists THEN {[raw |-> RawFile0, retErr |-> ErrOpen, pc |-> "done"]}
    ELSE LET h == ProcessHeaderOf(kind, flag, f).h
             r == ProcessIfdsOf(kind, flag, h, f)
         IN  IF r.panic THEN {[raw |-> RawFile0, retErr |-> NoErr, pc |-> "panic"]}
             ELSE IF ~ExtractsOf(kind, r)
             THEN {[raw |-> RawFile0, retErr |-> ErrAfterIfdsOf(kind, r), pc |-> "done"]}
             ELSE {[raw |-> e.raw, retErr |-> e.retErr, pc |-> e.pc] :
                      e \in JpegEndings(fileInfo, r, f)}

Ended(w) == workers[w].pc \in {"done", "panic"}
EndingOf(w) == [raw |-> workers[w].raw, retErr |-> workers[w].retErr, pc |-> workers[w].pc]
OutputPathOf(w) ==
    genExtractedJpegName(workers[w].info.File, workers[w].info.DestDir, ExtractedSuffix)

\* The JPEG bytes a call hands to the codec.
JpegBytesOf(w) ==
    ReadBytes(workers[w].ifds.jpeg.offset, workers[w].ifds.jpeg.length, workers[w].file)

IndependentCalls ==
    /\ setCalls = 0
    /\ workers[1].inst # workers[2].inst
    /\ workers[1].info.File # workers[2].info.File
    /\ OutputPathOf(1) # OutputPathOf(2)

StepsOf(w) ==
    [header |-> workers[w].pc \in {"header", "ifds", "done", "panic"}
                /\ workers[w].exists,
     ifds   |-> workers[w].pc \in {"ifds", "done", "panic"} /\ workers[w].exists]

--------------------------------------------------------------------------
(* The RawParsers registry (specification SpecRegistry): Register,           *)
(* GetParser and DeleteParser on the map made by NewRawParsers.              *)

MaxOps == 3             \* Register and DeleteParser calls in one run

\* "NEF", "CR2" and one more key; two parser objects; the nil RawParser
RegistryKeys == {"NEF", "CR2", "RAF"}
RegistryParsers == {"parser1", "parser2"}
NilParser == "nil"

\* p.parserMap[key]: the zero value, nil, for a key that is not present
MapLookup(parserMap, key) ==
    IF \E x \in parserMap : x.key = key
    THEN (CHOOSE x \in parserMap : x.key = key).parser
    ELSE NilParser

\* NewRawParsers(): an empty map
InitRegistry ==
    /\ NoCall
    /\ NoWorkers
    /\ cv = Idle /\ dt = Idle
    /\ registry = {}
    /\ regLog = <<>>
    /\ got = <<>>

\* A plausible slip: the first registration of a key is kept.
Register_keepsFirst(key, parser) ==
    /\ Len(regLog) < MaxOps
    /\ registry' = IF \E x \in registry : x.key = key THEN registry
                   ELSE registry \cup {[key |-> key, parser |-> parser]}
    /\ regLog' = Append(regLog, [op |-> "Register", key |-> key, parser |-> parser])
    /\ UNCHANGED <<callVars, cv, dt, workerVars, got>>

\* p.parserMap[key] = parser
Register(key, parser) ==
    /\ Len(regLog) < MaxOps
    /\ registry' = {x \in registry : x.key # key} \cup {[key |-> key, parser |-> parser]}
    /\ regLog' = Append(regLog, [op |-> "Register", key |-> key, parser |-> parser])
    /\ UNCHANGED <<callVars, cv, dt, workerVars, got>>

\* return p.parserMap[key]
GetParser(key) ==
    /\ got' = [key |-> key, parser |-> MapLookup(registry, key), at |-> Len(regLog)]
    /\ UNCHANGED <<callVars, cv, dt, workerVars, registry, regLog>>

\* delete(p.parserMap, key)
DeleteParser(key) ==
    /\ Len(regLog) < MaxOps
    /\ registry' = {x \in registry : x.key # key}
    /\ regLog' = Append(regLog, [op |-> "DeleteParser", key |-> key, parser |-> NilParser])
    /\ UNCHANGED <<callVars, cv, dt, workerVars, got>>

NextRegistry ==
    \/ \E k \in RegistryKeys, p \in RegistryParsers : Register(k, p)
    \/ \E k \in RegistryKeys : GetParser(k)
    \/ \E k \in RegistryKeys : DeleteParser(k)

SpecRegistry == InitRegistry /\ [][NextRegistry]_vars

\* What the calls made so far leave registered under key: the parser of the
\* last call on key if that call is a Register, nil otherwise.
CallsOn(log, key) == {i \in 1..Len(log) : log[i].key = key}
Registered(log, key) ==
    IF CallsOn(log, key) = {} THEN NilParser
    ELSE LET last == CHOOSE i \in CallsOn(log, key) : \A j \in CallsOn(log, key) : j <= i
         IN  IF log[last].op = "Register" THEN log[last].parser ELSE NilParser

\* C15: GetParser(k) returns the parser of the most recent Register(k, p) not
\* followed by DeleteParser(k), and nil when there is none; a call on a key
\* leaves what every other key maps to unchanged.
C15_RegistryIsAMap ==
    /\ (got # <<>> => got.parser = Registered(SubSeq(regLog, 1, got.at), got.key))
    /\ \A k \in RegistryKeys : MapLookup(registry, k) = Registered(regLog, k)

C15_Witness ==
    /\ got # <<>>
    /\ got.parser = "parser2"
    /\ got.at = 3
    /\ regLog[1] = [op |-> "Register", key |-> got.key, parser |-> "parser1"]
    /\ regLog[2].op = "DeleteParser" /\ regLog[2].key # got.key
    /\ regLog[3] = [op |-> "Register", key |-> got.key, parser |-> "parser2"]

--------------------------------------------------------------------------
(* Short reads during tag interpretation *)

\* processIfds was called and has returned or panicked.
IfdsRan == AfterIfds /\ ifds.decodes > 0

RationalShort(entry) ==
    \/ readField(U32ToInt(entry.valueOffset), 4, file).err # NoErr
    \/ readField(U32ToInt(entry.valueOffset) + 4, 4, file).err # NoErr

IsResolution(entry) == entry.tag \in {TagXResolution, TagYResolution}

\* The directory a root entry 0x014A leads to, with the error of its decode.
SubIfdOf(entry) ==
    LET ptrF == readField(U32ToInt(entry.valueOffset), 4, file)
    IN  processIfd(hostIsLE, hdr.isBigEndian,
                   U32ToInt(bytesToUInt(hostIsLE, hdr.isBigEndian, ptrF.bytes)), file)

ExifIfdOf(entry) ==
    processIfd(hostIsLE, hdr.isBigEndian, U32ToInt(entry.valueOffset), file)

SubIfdPointerShort(entry) ==
    /\ entry.tag = TagSubIFDs
    /\ readField(U32ToInt(entry.valueOffset), 4, file).err # NoErr

SubIfdRationalShort(entry) ==
    /\ entry.tag = TagSubIFDs
    /\ ~SubIfdPointerShort(entry)
    /\ SubIfdOf(entry).err = NoErr
    /\ \E k \in 1..Len(SubIfdOf(entry).l) :
           IsResolution(SubIfdOf(entry).l[k]) /\ RationalShort(SubIfdOf(entry).l[k])

SubIfdDecodeFails(entry) ==
    /\ entry.tag = TagSubIFDs
    /\ ~SubIfdPointerShort(entry)
    /\ SubIfdOf(entry).err # NoErr

ExifIfdDecodeFails(entry) ==
    entry.tag = TagExifIFD /\ ExifIfdOf(entry).err # NoErr

\* A short read other than the one of a date string, at root entry i.
ShortReadAt(i) ==
    LET entry == RootDirectory.l[i] IN
    \/ ExifIfdDecodeFails(entry)
    \/ parserKind = "NEF" /\ \/ SubIfdPointerShort(entry)
                             \/ SubIfdDecodeFails(entry)
                             \/ SubIfdRationalShort(entry)
    \/ parserKind = "CR2" /\ IsResolution(entry) /\ RationalShort(entry)

ShortReadMet ==
    \/ RootDirectory.err # NoErr
    \/ \E i \in 1..Len(RootDirectory.l) : ShortReadAt(i)

\* C16: in both parsers every short read met during tag interpretation, the
\* read of the EXIF date string excepted, makes processIfds return a non-nil
\* error, whatever entries follow it in the directory.
C16_ShortReadIsFatal ==
    (IfdsRan /\ ~ifds.panic /\ ShortReadMet) => ifds.err # NoErr

--------------------------------------------------------------------------
(* Failure of a nested directory *)

NestedDecodeFails(entry) == SubIfdDecodeFails(entry) \/ ExifIfdDecodeFails(entry)

NestedErrorOf(entry) ==
    IF entry.tag = TagSubIFDs THEN SubIfdOf(entry).err ELSE ExifIfdOf(entry).err

FailingRootEntries ==
    {i \in 1..Len(RootDirectory.l) : NestedDecodeFails(RootDirectory.l[i])}

FirstFailingRootEntry ==
    CHOOSE i \in FailingRootEntries : \A k \in FailingRootEntries : i <= k

\* What the interpretation of the root entries before entry i alone gives.
NefUpTo(i) ==
    NefRootLoop(hostIsLE, hdr, file, SubSeq(RootDirectory.l, 1, i - 1), 1,
                JpegInfo0, ZeroTime, 1)

\* C17: NEF: when the decode of the SubIFD or of the EXIF IFD fails,
\* processIfds stops at that entry and returns that error; the root entries
\* after it are not interpreted.
C17_NefNestedFailureStops ==
    (parserKind = "NEF" /\ IfdsRan /\ ~ifds.panic /\ RootDirectory.err = NoErr
        /\ FailingRootEntries # {}) =>
        /\ ifds.err = NestedErrorOf(RootDirectory.l[FirstFailingRootEntry])
        /\ ifds.err # NoErr
        /\ ifds.walked = FirstFailingRootEntry - 1
        /\ ifds.jpeg = NefUpTo(FirstFailingRootEntry).jpeg
        /\ ifds.cDate = NefUpTo(FirstFailingRootEntry).cDate

\* An EXIF IFD that cannot be decoded, followed by an orientation entry of
\* value 8 that is left uninterpreted.
C17_Witness ==
    /\ parserKind = "NEF" /\ pc = "ifds" /\ ~ifds.panic /\ RootDirectory.err = NoErr
    /\ FailingRootEntries # {}
    /\ FirstFailingRootEntry < Len(RootDirectory.l)
    /\ \E i \in (FirstFailingRootEntry + 1)..Len(RootDirectory.l) :
           /\ RootDirectory.l[i].tag = TagOrientation
           /\ OrientationOf(hdr.isBigEndian, RootDirectory.l[i]) = Rotate270Degrees
    /\ ifds.jpeg.orientation = 0
    /\ ifds.err # NoErr

C17_WitnessSubIfd ==
    /\ parserKind = "NEF" /\ pc = "ifds" /\ RootDirectory.err = NoErr
    /\ FailingRootEntries # {}
    /\ SubIfdDecodeFails(RootDirectory.l[FirstFailingRootEntry])
    /\ ifds.err # NoErr

FailingExifEntries ==
    {i \in 1..Len(RootDirectory.l) : ExifIfdDecodeFails(RootDirectory.l[i])}

FirstFailingExifEntry ==
    CHOOSE i \in FailingExifEntries : \A k \in FailingExifEntries : i <= k

NoRationalShort ==
    \A i \in 1..Len(RootDirectory.l) :
        IsResolution(RootDirectory.l[i]) => ~RationalShort(RootDirectory.l[i])

\* What the interpretation of the root entries before entry i alone gives.
Cr2UpTo(i) ==
    Cr2RootLoop(hostIsLE, hdr, file, SubSeq(RootDirectory.l, 1, i - 1), 1,
                JpegInfo0, ZeroTime, NoErr, 1)

--------------------------------------------------------------------------
(* The creation date *)

\* The 0x9004 entries met: <<i, k>> is entry k of the EXIF IFD of root entry i.
DateEntries ==
    UNION {{<<i, k>> : k \in {k \in 1..Len(ExifIfdOf(RootDirectory.l[i]).l) :
                                ExifIfdOf(RootDirectory.l[i]).l[k].tag
                                    = TagDateTimeDigitized}} :
           i \in {i \in 1..Len(RootDirectory.l) : RootDirectory.l[i].tag = TagExifIFD}}

DateEntryAt(ik) == ExifIfdOf(RootDirectory.l[ik[1]]).l[ik[2]]

DateStringReadable(ik) ==
    readField(U32ToInt(DateEntryAt(ik).valueOffset), U32ToInt(DateEntryAt(ik).count),
              file).err = NoErr

DateStringAt(ik) ==
    readField(U32ToInt(DateEntryAt(ik).valueOffset), U32ToInt(DateEntryAt(ik).count),
              file).bytes

ParsedDates ==
    {ik \in DateEntries : /\ DateStringReadable(ik)
                          /\ ~parseDateTime(DateStringAt(ik)).panic
                          /\ parseDateTime(DateStringAt(ik)).err = NoErr}

Before(a, b) == a[1] < b[1] \/ (a[1] = b[1] /\ a[2] < b[2])

FirstParsedDate ==
    CHOOSE ik \in ParsedDates : \A o \in ParsedDates : o = ik \/ Before(ik, o)

\* Every root entry was interpreted: no nested directory failed to decode.
WholeRootWalked ==
    /\ IfdsRan /\ ~ifds.panic /\ RootDirectory.err = NoErr
    /\ FailingExifEntries = {}
    /\ parserKind = "NEF" => FailingRootEntries = {}

\* C19: in both parsers, when several 0x9004 entries are met, the creation
\* date returned is the one of the first entry whose string parses; a later
\* 0x9004 entry, parsing or not, neither changes nor clears it.
C19_FirstParsedDateWins ==
    (WholeRootWalked /\ Cardinality(DateEntries) >= 2 /\ ParsedDates # {}) =>
        ifds.cDate = parseDateTime(DateStringAt(FirstParsedDate)).t

\* The positions in the file of the tag bytes of the 0x9004 entries.
DateTagPositions ==
    UNION {{U32ToInt(RootDirectory.l[ik[1]].valueOffset) + 2 + 12 * (ik[2] - 1) + b :
                b \in {1, 2}} : ik \in DateEntries}

\* The same file with every 0x9004 entry turned into an entry of tag 0, which
\* neither parser interprets.
FileWithoutDates ==
    LET positions == DateTagPositions
    IN  [p \in 1..Len(file) |-> IF p \in positions THEN 0 ELSE file[p]]

IfdsWithoutDates == ProcessIfdsOf(parserKind, hostIsLE, hdr, FileWithoutDates)

\* processIfds ran on a file whose 0x9004 entries all have a string that
\* cannot be read or does not parse, and no other read was short.
OnlyTheDateFails ==
    /\ IfdsRan /\ hdrErr = NoErr /\ ~ShortReadMet
    /\ DateEntries # {} /\ ParsedDates = {}

\* C20: in both parsers a date string that fails to parse, or whose bytes
\* cannot be read, is not fatal: processIfds returns a nil error when nothing
\* else failed, the creation date is the zero time, and the JPEG offset,
\* length and orientation are those of the file without the date entry.
C20_DateFailureNotFatal ==
    OnlyTheDateFails =>
        /\ ~ifds.panic
        /\ ifds.err = NoErr
        /\ ifds.cDate = ZeroTime
        /\ LET without == IfdsWithoutDates.jpeg
           IN  /\ ifds.jpeg.offset = without.offset
               /\ ifds.jpeg.length = without.length
               /\ ifds.jpeg.orientation = without.orientation

--------------------------------------------------------------------------
(* processIfd and processRationalEntry on their own (specification SpecTiff) *)

TypicalFiles ==
    {MkFile(be, root, SubStandard, ExifStandard) : be \in BOOLEAN, root \in TypicalRoots}

\* Offsets of the root IFD and of the SubIFD in the typical files, and 0.
IfdOffsets == {0, 8, 16, 50, 58, 62, 70}

RationalParts == {0, 1, 2, 7, 300, 70001}

\* A numerator and a denominator at offset 0, whole or cut short.
RationalFiles ==
    UNION {{SubSeq(U32Bytes(be, num) \o U32Bytes(be, den), 1, k) : k \in {0, 3, 4, 7, 8}} :
           be \in BOOLEAN, num \in RationalParts, den \in RationalParts}

TiffFiles == TypicalFiles \cup CutFiles \cup RationalFiles

InitTiff ==
    /\ NoCall
    /\ NoWorkers
    /\ NoRegistry
    /\ dt = Idle
    /\ \E h \in BOOLEAN, b \in BOOLEAN, o \in IfdOffsets, f \in TiffFiles :
          cv = [op |-> "tiffInput", isHostLe |-> h, isFileBe |-> b, offset |-> o, f |-> f]

CallProcessIfd ==
    /\ cv.op = "tiffInput"
    /\ cv' = [cv EXCEPT !.op = "processIfd"]
             @@ [out |-> processIfd(cv.isHostLe, cv.isFileBe, cv.offset, cv.f)]
    /\ UNCHANGED <<callVars, dt, workerVars, regVars>>

CallProcessRationalEntry ==
    /\ cv.op = "tiffInput"
    /\ cv' = [cv EXCEPT !.op = "processRationalEntry"]
             @@ [out |-> processRationalEntry(cv.isHostLe, cv.isFileBe,
                                              U32(0, cv.offset), cv.f)]
    /\ UNCHANGED <<callVars, dt, workerVars, regVars>>

NextTiff ==
    \/ CallProcessIfd
    \/ CallProcessRationalEntry

SpecTiff == InitTiff /\ [][NextTiff]_vars

\* The k bytes of the call's file that follow position p.
BytesAt(p, k) == [j \in 1..k |-> cv.f[p + j]]

UShortAt(p) == bytesToUShort(cv.isHostLe, cv.isFileBe, BytesAt(p, 2))
UIntAt(p) == bytesToUInt(cv.isHostLe, cv.isFileBe, BytesAt(p, 4))

\* The entry count, when its two bytes are in the file.
CountAt(o) == IF o + 2 <= Len(cv.f) THEN UShortAt(o) ELSE 0

\* Every read of processIfd at offset o is complete.
IfdReadable(o) == o + 2 <= Len(cv.f) /\ o + 2 + 12 * CountAt(o) <= Len(cv.f)

\* C21: processIfd at offset o reads the entry count n at o and returns, with
\* a nil error, exactly n entries in directory order, the i-th decoded from
\* the 12 bytes at o+2+12*i as tag(2), fieldType(2), count(4), valueOffset(4);
\* if any of these reads is short it returns a non-nil error.
C21_ProcessIfdLayout ==
    cv.op = "processIfd" =>
        LET o == cv.offset
            n == CountAt(o)
        IN  /\ IfdReadable(o) =>
                /\ cv.out.err = NoErr
                /\ Len(cv.out.l) = n
                /\ \A i \in 0..(n - 1) :
                       cv.out.l[i + 1] = IfdEntry(UShortAt(o + 2 + 12 * i),
                                                  UShortAt(o + 2 + 12 * i + 2),
                                                  UIntAt(o + 2 + 12 * i + 4),
                                                  UIntAt(o + 2 + 12 * i + 8))
            /\ ~IfdReadable(o) => cv.out.err # NoErr

C21_Witness ==
    /\ cv.op = "processIfd"
    /\ IfdReadable(cv.offset) /\ CountAt(cv.offset) >= 3
    /\ cv.out.err = NoErr /\ Len(cv.out.l) = CountAt(cv.offset)
    /\ cv.out.l[3].tag = TagExifIFD

\* The count read itself is short.
C21_WitnessShortCount ==
    /\ cv.op = "processIfd"
    /\ cv.offset + 2 > Len(cv.f) /\ cv.offset < Len(cv.f)
    /\ cv.out.err # NoErr

\* The numerator and the denominator as the file holds them, and the call's
\* quotient as an integer.
NumeratorAt(o) == U32ToInt(UIntAt(o))
DenominatorAt(o) == U32ToInt(UIntAt(o + 4))
RatioOut == U32ToInt(cv.out.r)

\* Both operands are in the file and below 2^30.
RationalReadable(o) ==
    /\ o + 8 <= Len(cv.f)
    /\ UIntAt(o).hi < TwoTo14
    /\ UIntAt(o + 4).hi < TwoTo14

\* C22: processRationalEntry reads the numerator as the 4-byte unsigned
\* integer at the entry's offset and the denominator as the one at offset+4,
\* and returns as ratio the truncating quotient numerator div denominator,
\* or 0 when the denominator is 0.
C22_RationalQuotient ==
    (cv.op = "processRationalEntry" /\ RationalReadable(cv.offset)) =>
        LET num == NumeratorAt(cv.offset)
            den == DenominatorAt(cv.offset)
        IN  /\ cv.out.err = NoErr
            /\ cv.out.num = UIntAt(cv.offset)
            /\ cv.out.den = UIntAt(cv.offset + 4)
            /\ den = 0 => RatioOut = 0
            /\ den > 0 => /\ RatioOut * den <= num
                          /\ num < (RatioOut + 1) * den

\* 7/2 gives 3.
C22_Witness ==
    /\ cv.op = "processRationalEntry" /\ RationalReadable(cv.offset)
    /\ NumeratorAt(cv.offset) = 7 /\ DenominatorAt(cv.offset) = 2
    /\ RatioOut = 3

\* 1/2 gives 0, and a denominator of 0 gives 0.
C22_WitnessHalf ==
    /\ cv.op = "processRationalEntry" /\ RationalReadable(cv.offset)
    /\ NumeratorAt(cv.offset) = 1 /\ DenominatorAt(cv.offset) = 2
    /\ RatioOut = 0
C22_WitnessZeroDenominator ==
    /\ cv.op = "processRationalEntry" /\ RationalReadable(cv.offset)
    /\ NumeratorAt(cv.offset) = 7 /\ DenominatorAt(cv.offset) = 0
    /\ RatioOut = 0

--------------------------------------------------------------------------
(* The Nikon SubIFD *)

\* The entries of tag t met in the SubIFDs: <<i, k>> is entry k of the
\* SubIFD that root entry i leads to.
SubIfdEntriesOf(t) ==
    UNION {{<<i, k>> : k \in {k \in 1..Len(SubIfdOf(RootDirectory.l[i]).l) :
                                SubIfdOf(RootDirectory.l[i]).l[k].tag = t}} :
           i \in {i \in 1..Len(RootDirectory.l) :
                    /\ RootDirectory.l[i].tag = TagSubIFDs
                    /\ ~SubIfdPointerShort(RootDirectory.l[i])}}

\* The value of the last entry of tag t met in the SubIFDs, 0 when there is none.
LastSubIfdValue(t) ==
    IF SubIfdEntriesOf(t) = {} THEN 0
    ELSE LET last == CHOOSE ik \in SubIfdEntriesOf(t) :
                         \A o \in SubIfdEntriesOf(t) : o = ik \/ Before(o, ik)
         IN  U32ToInt(SubIfdOf(RootDirectory.l[last[1]]).l[last[2]].valueOffset)

\* C23: NEF: for a root entry 0x014A processIfds reads a 4-byte offset at
\* entry.valueOffset and decodes the IFD at that resolved offset; within it
\* 0x0201 sets the JPEG offset and 0x0202 the JPEG length, while the root
\* entries 0x0111, 0x0117, 0x0201, 0x0202 and unrecognized ones change nothing.
C23_NefSubIfdIndirection ==
    (parserKind = "NEF" /\ WholeRootWalked) =>
        /\ ifds.jpeg.offset = LastSubIfdValue(TagJpegOffset)
        /\ ifds.jpeg.length = LastSubIfdValue(TagJpegLength)

\* A SubIFD with both entries, below a root that itself holds a 0x0201 entry.
C23_Witness ==
    /\ parserKind = "NEF" /\ pc = "ifds" /\ WholeRootWalked
    /\ \E i \in 1..Len(RootDirectory.l) :
           /\ RootDirectory.l[i].tag = TagJpegOffset
           /\ RootDirectory.l[i].valueOffset # U32Zero
    /\ SubIfdEntriesOf(TagJpegOffset) # {}
    /\ ifds.jpeg.offset > 0 /\ ifds.jpeg.length > 0

\* Root entries 0x0111 and 0x0117 alone: the descriptor stays empty.
C23_WitnessRootOnly ==
    /\ parserKind = "NEF" /\ pc = "ifds" /\ WholeRootWalked
    /\ \E i \in 1..Len(RootDirectory.l) : RootDirectory.l[i].tag = TagStripOffsets
    /\ \E i \in 1..Len(RootDirectory.l) : RootDirectory.l[i].tag = TagStripByteCounts
    /\ ifds.jpeg.offset = 0 /\ ifds.jpeg.length = 0

--------------------------------------------------------------------------
(* The source file handle *)

\* C24: in both parsers the source file handle opened by ProcessFile is
\* closed by the time ProcessFile returns, on the success path and on every
\* error path.
C24_HandleClosedOnReturn == Returned => openHandles = 0

--------------------------------------------------------------------------
(* Termination *)

\* One call of ProcessFile.  Every step of the call is eventually taken:
\* nothing else runs in it.
\* The steps of ProcessIfds, whose only guard is pc = "header".
IfdsStep == pc = "header" /\ pc' \in {"ifds", "panic"}
SpecLive ==
    /\ Init /\ [][Next]_vars
    /\ WF_vars(OpenFile) /\ WF_vars(ProcessHeader) /\ WF_pc(IfdsStep)
    /\ WF_vars(ReturnAfterIfds \/ DecodeAndWriteJpeg)

\* The root entries that lead to a nested directory.
PointerEntries ==
    {i \in 1..Len(RootDirectory.l) : RootDirectory.l[i].tag \in {TagSubIFDs, TagExifIFD}}

\* A pointer of the root directory that leads back to the root directory.
PointsBack ==
    \E i \in PointerEntries :
        IF RootDirectory.l[i].tag = TagExifIFD
        THEN U32ToInt(RootDirectory.l[i].valueOffset) = hdr.tiffOffset
        ELSE /\ parserKind = "NEF"
             /\ ~SubIfdPointerShort(RootDirectory.l[i])
             /\ LET ptrF == readField(U32ToInt(RootDirectory.l[i].valueOffset), 4, file)
                IN  U32ToInt(bytesToUInt(hostIsLE, hdr.isBigEndian, ptrF.bytes))
                        = hdr.tiffOffset

DecodesBounded ==
    IfdsRan => /\ ifds.decodes <= Len(RootDirectory.l) + 1
               /\ Len(RootDirectory.l) < TwoTo16

Terminated == pc \in {"done", "panic"}

\* C25: for every file content ProcessFile terminates, and the number of IFD
\* decodes is at most the root entry count plus one: nested IFDs are followed
\* one level below the root only.
C25_TerminatesWithBoundedDecodes == []DecodesBounded /\ <>Terminated

\* A root directory whose pointers lead back to it, interpreted to the end.
C25_Witness ==
    /\ Returned /\ IfdsRan /\ RootDirectory.err = NoErr
    /\ Len(RootDirectory.l) = 2 /\ PointsBack
    /\ ifds.decodes = 3

--------------------------------------------------------------------------
(* parseDateTime applied to strings whose year token has any length from 0   *)
(* to 5 (specification SpecYear); the other tokens are as in SpecMalformed.  *)

\* "", "2", "20", "201", "2010", "20108"
YearPrefixes == {SubSeq(<<50, 48, 49, 48, 56>>, 1, n) : n \in 0..5}

InitYear ==
    /\ NoCall
    /\ NoWorkers
    /\ NoRegistry
    /\ cv = Idle
    /\ \E y \in YearPrefixes, mo \in GoodMonthTokens \cup BadMonthTokens,
          h \in GoodHourTokens \cup BadHourTokens,
          mi \in GoodMinuteTokens \cup BadMinuteTokens,
          nd \in TokenCounts, nt \in TokenCounts :
          dt = [op |-> "year", year |-> y, month |-> mo, hour |-> h, min |-> mi,
                nDate |-> nd, nTime |-> nt,
                s |-> Spaced(DateTokenOf(y, mo, DayToken, nd),
                             TimeTokenOf(h, mi, SecondToken, nt), "one")]

CallParseYear ==
    /\ dt.op = "year"
    /\ dt' = [dt EXCEPT !.op = "parsedYear"] @@ [out |-> parseDateTime(dt.s)]
    /\ UNCHANGED <<callVars, cv, workerVars, regVars>>

NextYear == CallParseYear

SpecYear == InitYear /\ [][NextYear]_vars

\* C26: parseDateTime never aborts with an out-of-range index: for every
\* input string, a year token shorter than four characters included, it
\* returns a timestamp or an error value.
C26_ParseNeverAborts ==
    dt.op = "parsedYear" => ~dt.out.panic

--------------------------------------------------------------------------
(* The output path of two calls (specification SpecWorkers) *)

\* A call that wrote its JPEG returns the path it wrote in RawFile.JpegPath.
WroteJpeg(w) == Ended(w) /\ workers[w].raw.JpegPath # <<>>
SameDestDistinctSources ==
    /\ workers[1].info.File # workers[2].info.File
    /\ workers[1].info.DestDir = workers[2].info.DestDir

\* The first half of C27 alone: the path written is destDir, then the base
\* name of the source path, then "_extracted.jpg".
PathIsDestBaseSuffix ==
    \A w \in WorkerIds :
        WroteJpeg(w) =>
            workers[w].raw.JpegPath =
                workers[w].info.DestDir \o FilepathBase(workers[w].info.File)
                \o ExtractedSuffix

\* C27: the output path is destDir followed by the base name of the source
\* file followed by "_extracted.jpg", so two concurrent ProcessFile calls on
\* distinct source paths with the same destination directory never write
\* the same output JPEG file.
C27_DistinctSourcesDistinctOutputs ==
    /\ PathIsDestBaseSuffix
    /\ (SameDestDistinctSources /\ WroteJpeg(1) /\ WroteJpeg(2)) =>
           workers[1].raw.JpegPath # workers[2].raw.JpegPath

--------------------------------------------------------------------------
(* A date string with its terminating NUL (specification Spec) *)

\* The 0x9004 entry processIfds meets last.
LastDateEntry ==
    CHOOSE ik \in DateEntries : \A o \in DateEntries : o = ik \/ Before(o, ik)

\* The entry has count 20 and its string s is 19 characters and a NUL.
NulTerminated19(entry, s) ==
    /\ U32ToInt(entry.count) = 20
    /\ Len(s) = 20
    /\ s[20] = 0
    /\ \A k \in 1..19 : s[k] # 0

\* The string processIfds hands to parseDateTime last, when it is 19
\* characters and a NUL; <<>> when the walk was cut short, the file has no
\* 0x9004 entry, or the 20 bytes are not all in the file.
LastDateString ==
    IF WholeRootWalked /\ DateEntries # {}
    THEN LET ik == LastDateEntry
         IN  IF DateStringReadable(ik)
                /\ NulTerminated19(DateEntryAt(ik), DateStringAt(ik))
             THEN DateStringAt(ik) ELSE <<>>
    ELSE <<>>

\* The timestamp written out from the digits of "YYYY:MM:DD HH:MM:SS".
TwoDigitsOf(s, k) == 10 * (s[k] - Ch0) + (s[k + 1] - Ch0)
LooksLikeTimestamp(s) ==
    /\ \A k \in {1, 2, 3, 4, 6, 7, 9, 10, 12, 13, 15, 16, 18, 19} : s[k] \in Ch0..Ch9
    /\ \A k \in {5, 8, 14, 17} : s[k] = ChColon
    /\ s[11] = ChSpace

\* C28: a 0x9004 entry of count 20 whose bytes are the 19-character timestamp
\* followed by a NUL byte yields the same creation date as parseDateTime
\* applied to the 19 characters alone: the bytes after the minutes field do
\* not make the parse fail.
C28_TrailingNulHarmless ==
    LET s == LastDateString
    IN  s # <<>> =>
            LET alone == parseDateTime(SubSeq(s, 1, 19))
            IN  /\ ~alone.panic
                /\ ifds.cDate = alone.t

\* The date is a real one, not the zero time both a failed parse and an
\* absent entry would give.
C28_Witness ==
    LET s == LastDateString
    IN  /\ s # <<>>
        /\ LooksLikeTimestamp(s)
        /\ ifds.cDate = Time(100 * TwoDigitsOf(s, 1) + TwoDigitsOf(s, 3),
                             TwoDigitsOf(s, 6), TwoDigitsOf(s, 9),
                             TwoDigitsOf(s, 12), TwoDigitsOf(s, 15), 0)
        /\ ifds.cDate # ZeroTime

\* A string that does not parse, NUL or no NUL: the date stays the zero time.
C28_WitnessRejected ==
    LET s == LastDateString
    IN  /\ s # <<>>
        /\ parseDateTime(SubSeq(s, 1, 19)).err # NoErr
        /\ ifds.cDate = ZeroTime

==========================================================================
